---- MODULE Spec2Model ----
(***************************************************************************)
(* Model of the MediaWiki-to-Markdown transducer of                        *)
(* src/preprocessing/utils.py.                                             *)
(*                                                                         *)
(* A string is a sequence of symbols.  A symbol is a one-character string  *)
(* ("{", "'", "=", "\n", ...) or a whole word ("File", "References",       *)
(* "thumb", "x", ...) that the inputs of the model only contain as a       *)
(* unit.  Cursors are 0-based, as in the source: At(s, k) is s[k] and      *)
(* Slice(s, a, b) is s[a:b].                                               *)
(***************************************************************************)
EXTENDS Naturals, Integers, Sequences, FiniteSets, TLC

VARIABLES
    text,      \* the input string of the function under study
    lines,     \* the line list handed to the line processor / table transducer
    i,         \* the scan cursor (character index or line index)
    result,    \* the output accumulated so far (characters, or lines)
    out,       \* the returned value
    pc         \* the position in the function under study

vars == <<text, lines, i, result, out, pc>>

\* Python's None where a string is expected: no string of the model holds it
None == <<"None">>

NL == "\n"

QUOTE == "'"

(***************************************************************************)
(* Python string primitives                                                *)
(***************************************************************************)
At(s, k) == s[k + 1]

Min(a, b) == IF a < b THEN a ELSE b

Max(a, b) == IF a > b THEN a ELSE b

Slice(s, a, b) == SubSeq(s, a + 1, Min(b, Len(s)))

Drop(s, a) == SubSeq(s, a + 1, Len(s))

StartsWith(s, p) == Len(s) >= Len(p) /\ SubSeq(s, 1, Len(p)) = p

StartsWithAt(s, k, p) == k + Len(p) <= Len(s) /\ SubSeq(s, k + 1, k + Len(p)) = p

\* str.isspace for the symbols of the model
IsSpace(c) == c \in {" ", "\t", NL, "\r"}

RECURSIVE LStrip(_)
LStrip(s) ==
    IF s # <<>> /\ IsSpace(Head(s)) THEN LStrip(Tail(s)) ELSE s

RECURSIVE RStrip(_)
RStrip(s) ==
    IF s # <<>> /\ IsSpace(s[Len(s)]) THEN RStrip(SubSeq(s, 1, Len(s) - 1)) ELSE s

\* str.strip()
Strip(s) == LStrip(RStrip(s))

\* str.find(c, from): the least index >= from holding c, or -1
RECURSIVE Find(_, _, _)
Find(s, c, from) ==
    IF from >= Len(s) THEN -1
    ELSE IF At(s, from) = c THEN from
    ELSE Find(s, c, from + 1)

RECURSIVE Repeat(_, _)
Repeat(c, n) == IF n <= 0 THEN <<>> ELSE <<c>> \o Repeat(c, n - 1)

\* sep.join(parts) for a sequence of strings
RECURSIVE Join(_, _)
Join(parts, sep) ==
    IF parts = <<>> THEN <<>>
    ELSE IF Len(parts) = 1 THEN parts[1]
    ELSE parts[1] \o sep \o Join(Tail(parts), sep)

\* the concatenation of a sequence of strings
Concat(parts) == Join(parts, <<>>)

\* whether p occurs in s as a contiguous run
Occurs(s, p) == \E k \in 0 .. Len(s) : StartsWithAt(s, k, p)

(***************************************************************************)
(* convert_formatting: ''''' ''' '' to *** ** *                            *)
(***************************************************************************)
AllQuotes(s, k, n) == k + n <= Len(s) /\ \A d \in 0 .. n - 1 : At(s, k + d) = QUOTE

\* (.*?) followed by n apostrophes: the least q >= from where n apostrophes
\* start, with no newline in s[from:q] ('.' matches no newline); -1 if none
RECURSIVE FindQuoteRun(_, _, _)
FindQuoteRun(s, q, n) ==
    IF q + n > Len(s) THEN -1
    ELSE IF AllQuotes(s, q, n) THEN q
    ELSE IF At(s, q) = NL THEN -1
    ELSE FindQuoteRun(s, q + 1, n)

\* SubEmphasis as re.sub(..., count=1): only the first match is rewritten
RECURSIVE SubEmphasis_FirstOnly(_, _, _)
SubEmphasis_FirstOnly(s, p, n) ==
    IF p >= Len(s) THEN <<>>
    ELSE IF AllQuotes(s, p, n) /\ FindQuoteRun(s, p + n, n) # -1
    THEN LET q == FindQuoteRun(s, p + n, n)
             stars == Repeat("*", IF n = 5 THEN 3 ELSE n - 1)
         IN  stars \o Slice(s, p + n, q) \o stars \o Drop(s, q + n)
    ELSE <<At(s, p)>> \o SubEmphasis_FirstOnly(s, p + 1, n)

\* re.sub(r"'{n}(.*?)'{n}", stars \1 stars, s), scanning from index p
RECURSIVE SubEmphasis(_, _, _)
SubEmphasis(s, p, n) ==
    IF p >= Len(s) THEN <<>>
    ELSE IF AllQuotes(s, p, n) /\ FindQuoteRun(s, p + n, n) # -1
    THEN LET q == FindQuoteRun(s, p + n, n)
             stars == Repeat("*", IF n = 5 THEN 3 ELSE n - 1)
         IN  stars \o Slice(s, p + n, q) \o stars \o SubEmphasis(s, q + n, n)
    ELSE <<At(s, p)>> \o SubEmphasis(s, p + 1, n)

\* convert_formatting with the three substitutions in the reverse order
convert_formatting_TwoFirst(s) ==
    SubEmphasis(SubEmphasis(SubEmphasis(s, 0, 2), 0, 3), 0, 5)

convert_formatting(s) ==
    SubEmphasis(SubEmphasis(SubEmphasis(s, 0, 5), 0, 3), 0, 2)

(***************************************************************************)
(* process_heading                                                         *)
(***************************************************************************)
skip_headings ==
    { <<"இவற்றையும் பார்க்க">>, <<"இவற்றையும் பார்க்கவும்">>, <<"See also">>,
      <<"மேலும் காண்க">>, <<"மேற்கோள்கள்">>, <<"References">>, <<"குறிப்புகள்">>,
      <<"சான்றுகள்">>, <<"வெளி இணைப்புகள்">>, <<"External links">>,
      <<"புற இணைப்புகள்">>, <<"நூற்பட்டியல்">>, <<"Bibliography">>, <<"நூல்கள்">>,
      <<"மேலும் படிக்க">>, <<"Further reading">>,
      <<"பின்வருவனவற்றையும் பார்க்கவும்">>, <<"உசாத்துணை">> }

\* the length of the run of c that starts s
RECURSIVE LeadingRun(_, _)
LeadingRun(s, c) ==
    IF s # <<>> /\ Head(s) = c THEN 1 + LeadingRun(Tail(s), c) ELSE 0

\* the length of the run of c that ends s
RECURSIVE TrailingRun(_, _)
TrailingRun(s, c) ==
    IF s # <<>> /\ s[Len(s)] = c
    THEN 1 + TrailingRun(SubSeq(s, 1, Len(s) - 1), c) ELSE 0

\* re.match(r'^(=+)\s*(.*?)\s*(=+)$', line) for a line without newline: the
\* lengths of groups 1 and 3 and group 2 stripped.  Group 1 takes the whole
\* leading run unless the line is nothing but '=' (then it gives one back to
\* group 3); the lazy group 2 leaves group 3 the whole trailing run.
HeadingMatch(line) ==
    LET r == LeadingRun(line, "=")
        rest == Drop(line, r)
        e == TrailingRun(rest, "=")
    IN  IF r = 0 THEN [matched |-> FALSE, open |-> 0, close |-> 0, text |-> <<>>]
        ELSE IF rest = <<>>
        THEN [matched |-> r >= 2, open |-> r - 1, close |-> 1, text |-> <<>>]
        ELSE [matched |-> e > 0, open |-> r, close |-> e,
              text |-> Strip(SubSeq(rest, 1, Len(rest) - e))]

\* process_heading with the level taken unclamped from the marker count
process_heading_NoClamp(line) ==
    LET m == HeadingMatch(line)
        heading_text == convert_formatting(m.text)
    IN  IF ~m.matched \/ m.open # m.close
        THEN [is_heading |-> FALSE, line |-> None]
        ELSE IF heading_text \in skip_headings
        THEN [is_heading |-> TRUE, line |-> None]
        ELSE [is_heading |-> TRUE,
              line |-> Repeat("#", m.open) \o <<" ">> \o heading_text]

\* process_heading(line): (is_heading, markdown_line or None)
process_heading(line) ==
    LET m == HeadingMatch(line)
        level == Min(m.open, 6)
        heading_text == convert_formatting(m.text)
    IN  IF ~m.matched \/ m.open # m.close
        THEN [is_heading |-> FALSE, line |-> None]
        ELSE IF heading_text \in skip_headings
        THEN [is_heading |-> TRUE, line |-> None]
        ELSE [is_heading |-> TRUE,
              line |-> Repeat("#", level) \o <<" ">> \o heading_text]

(***************************************************************************)
(* Regular-expression helpers shared by the table transducer and the       *)
(* rewriting passes                                                        *)
(***************************************************************************)
\* the index after the run of whitespace that starts at p (\s*)
RECURSIVE SkipSpace(_, _)
SkipSpace(s, p) ==
    IF p < Len(s) /\ IsSpace(At(s, p)) THEN SkipSpace(s, p + 1) ELSE p

\* the length of the run of c that starts at index p
RECURSIVE RunAt(_, _, _)
RunAt(s, p, c) ==
    IF p < Len(s) /\ At(s, p) = c THEN 1 + RunAt(s, p + 1, c) ELSE 0

\* the length of the separator that starts at index p, 0 if none does:
\*   "row"    \n\|-+\n?      (line 410)
\*   "header" !!|\n!          (line 419)
\*   "cell"   \|\||\n\|       (line 433)
\*   "line"   \n              (str.splitlines)
SepLen(kind, s, p) ==
    CASE kind = "row" ->
           IF StartsWithAt(s, p, <<NL, "|", "-">>)
           THEN LET dashes == RunAt(s, p + 2, "-")
                    after == p + 2 + dashes
                IN  2 + dashes + (IF after < Len(s) /\ At(s, after) = NL THEN 1 ELSE 0)
           ELSE 0
      [] kind = "header" ->
           IF StartsWithAt(s, p, <<"!", "!">>) \/ StartsWithAt(s, p, <<NL, "!">>)
           THEN 2 ELSE 0
      [] kind = "cell" ->
           IF StartsWithAt(s, p, <<"|", "|">>) \/ StartsWithAt(s, p, <<NL, "|">>)
           THEN 2 ELSE 0
      [] kind = "line" -> IF At(s, p) = NL THEN 1 ELSE 0

\* re.split(separator, s): the pieces between the separators, left to right
RECURSIVE SplitFrom(_, _, _, _)
SplitFrom(s, kind, p, start) ==
    IF p >= Len(s) THEN << Slice(s, start, Len(s)) >>
    ELSE LET n == SepLen(kind, s, p)
         IN  IF n > 0
             THEN << Slice(s, start, p) >> \o SplitFrom(s, kind, p + n, p + n)
             ELSE SplitFrom(s, kind, p + 1, start)

Split(s, kind) == SplitFrom(s, kind, 0, 0)

\* str.splitlines(): no line for the empty string, none after a final newline
splitlines(s) ==
    LET parts == Split(s, "line")
    IN  IF s = <<>> THEN <<>>
        ELSE IF parts[Len(parts)] = <<>> THEN SubSeq(parts, 1, Len(parts) - 1)
        ELSE parts

\* str.lstrip(chars)
RECURSIVE LStripChars(_, _)
LStripChars(s, chars) ==
    IF s # <<>> /\ Head(s) \in chars THEN LStripChars(Tail(s), chars) ELSE s

\* s.split(c)[-1]: what follows the last c
RECURSIVE AfterLast(_, _)
AfterLast(s, c) ==
    IF Find(s, c, 0) = -1 THEN s ELSE AfterLast(Drop(s, Find(s, c, 0) + 1), c)

\* the attribute names of lines 154-155 and 406-407 (matched ignoring case)
IsAttrName(c) ==
    c \in { "colspan", "rowspan", "style", "class", "align", "valign", "bgcolor",
            "width", "height", "STYLE", "Class" }

\* \s*(?:colspan|...)\s*=\s*Q[^Q]*Q at index p, for the quote character Q:
\* the index after the match, or -1
AttrEnd(s, p, q) ==
    LET a == SkipSpace(s, p)
        b == SkipSpace(s, a + 1)
        c == SkipSpace(s, b + 1)
        d == Find(s, q, c + 1)
    IN  IF /\ a < Len(s) /\ IsAttrName(At(s, a))
           /\ b < Len(s) /\ At(s, b) = "="
           /\ c < Len(s) /\ At(s, c) = q
           /\ d # -1
        THEN d + 1 ELSE -1

\* the same followed by \s*\| (line 406)
AttrPipeEnd(s, p) ==
    LET e == AttrEnd(s, p, "\"")
        f == IF e = -1 THEN -1 ELSE SkipSpace(s, e)
    IN  IF e # -1 /\ f < Len(s) /\ At(s, f) = "|" THEN f + 1 ELSE -1

\* re.sub of the attribute pattern: with a pipe -> ' | ', without -> ''
RECURSIVE SubAttrPipe(_, _)
SubAttrPipe(s, p) ==
    IF p >= Len(s) THEN <<>>
    ELSE IF AttrPipeEnd(s, p) # -1
    THEN <<" ", "|", " ">> \o SubAttrPipe(s, AttrPipeEnd(s, p))
    ELSE <<At(s, p)>> \o SubAttrPipe(s, p + 1)

RECURSIVE SubAttr(_, _, _)
SubAttr(s, p, q) ==
    IF p >= Len(s) THEN <<>>
    ELSE IF AttrEnd(s, p, q) # -1 THEN SubAttr(s, AttrEnd(s, p, q), q)
    ELSE <<At(s, p)>> \o SubAttr(s, p + 1, q)

(***************************************************************************)
(* remove_html_comments_and_tags.  The markup of this pass is carried by   *)
(* whole symbols: "<!--", "-->", "<ref>", "<ref/>", "</ref>", "<nowiki>",   *)
(* "</nowiki>", "<br>", "<br/>", "<gallery>", "</gallery>".                 *)
(***************************************************************************)
\* what opens and what closes the span removed by each re.sub of lines 30-43;
\* <ref[^>]*?> also matches the self-closing <ref/>
SpanOpens(kind, c) ==
    CASE kind = "comment" -> c = "<!--"
      [] kind = "ref" -> c \in {"<ref>", "<ref/>"}
      [] kind = "nowiki" -> c = "<nowiki>"
      [] kind = "gallery" -> c = "<gallery>"

SpanClose(kind) ==
    CASE kind = "comment" -> "-->"
      [] kind = "ref" -> "</ref>"
      [] kind = "nowiki" -> "</nowiki>"
      [] kind = "gallery" -> "</gallery>"

\* re.sub(open .*? close, '', s, flags=DOTALL), scanning from index p
RECURSIVE RemoveSpans(_, _, _)
RemoveSpans(s, p, kind) ==
    IF p >= Len(s) THEN <<>>
    ELSE IF SpanOpens(kind, At(s, p)) /\ Find(s, SpanClose(kind), p + 1) # -1
    THEN RemoveSpans(s, Find(s, SpanClose(kind), p + 1) + 1, kind)
    ELSE <<At(s, p)>> \o RemoveSpans(s, p + 1, kind)

\* every symbol of s in the set olds replaced by the string new
RECURSIVE ReplaceSymbols(_, _, _)
ReplaceSymbols(s, olds, new) ==
    IF s = <<>> THEN <<>>
    ELSE (IF Head(s) \in olds THEN new ELSE <<Head(s)>>)
             \o ReplaceSymbols(Tail(s), olds, new)

remove_html_comments_and_tags(s) ==
    LET no_comments == RemoveSpans(s, 0, "comment")
        no_refs == ReplaceSymbols(RemoveSpans(no_comments, 0, "ref"), {"<ref/>"}, <<>>)
        no_nowiki == RemoveSpans(no_refs, 0, "nowiki")
        breaks == ReplaceSymbols(no_nowiki, {"<br>", "<br/>"}, <<NL>>)
    IN  RemoveSpans(breaks, 0, "gallery")

(***************************************************************************)
(* remove_categories                                                       *)
(***************************************************************************)
TA_CATEGORY == "பகுப்பு"

\* \[\[Category:[^\]]+\]\] at index p: the index after the match, or -1
CategoryEnd(s, p) ==
    LET close == Find(s, "]", p + 4)
    IN  IF /\ StartsWithAt(s, p, <<"[", "[", "Category", ":">>)
           /\ close # -1 /\ close > p + 4
           /\ StartsWithAt(s, close, <<"]", "]">>)
        THEN close + 2 ELSE -1

\* the least q >= from where "]]" starts, with no newline before it; -1 if none
RECURSIVE FindCloseOnLine(_, _)
FindCloseOnLine(s, q) ==
    IF q + 2 > Len(s) THEN -1
    ELSE IF StartsWithAt(s, q, <<"]", "]">>) THEN q
    ELSE IF At(s, q) = NL THEN -1
    ELSE FindCloseOnLine(s, q + 1)

\* \[\[<Tamil category>:.*?\]\] at index p
TaCategoryEnd(s, p) ==
    IF /\ StartsWithAt(s, p, <<"[", "[", TA_CATEGORY, ":">>)
       /\ FindCloseOnLine(s, p + 4) # -1
    THEN FindCloseOnLine(s, p + 4) + 2 ELSE -1

\* <Tamil category>:.*$ (MULTILINE) at index p: the end of the line
TaCategoryTailEnd(s, p) ==
    IF StartsWithAt(s, p, <<TA_CATEGORY, ":">>)
    THEN (IF Find(s, NL, p) = -1 THEN Len(s) ELSE Find(s, NL, p))
    ELSE -1

CategoryMatchEnd(kind, s, p) ==
    CASE kind = "en" -> CategoryEnd(s, p)
      [] kind = "ta" -> TaCategoryEnd(s, p)
      [] kind = "tail" -> TaCategoryTailEnd(s, p)

RECURSIVE SubCategory(_, _, _)
SubCategory(s, p, kind) ==
    IF p >= Len(s) THEN <<>>
    ELSE IF CategoryMatchEnd(kind, s, p) # -1
    THEN SubCategory(s, CategoryMatchEnd(kind, s, p), kind)
    ELSE <<At(s, p)>> \o SubCategory(s, p + 1, kind)

remove_categories(s) ==
    SubCategory(SubCategory(SubCategory(s, 0, "en"), 0, "ta"), 0, "tail")

(***************************************************************************)
(* remove_images_and_files                                                 *)
(***************************************************************************)
\* File|Image and the two Tamil names, matched ignoring case
IsImageNamespace(c) ==
    c \in { "File", "file", "FILE", "Image", "image", "IMAGE", "படிமம்", "கோப்பு" }

IsBracket(c) == c \in {"[", "]"}

\* the index of the first bracket at or after p, Len(s) if there is none
RECURSIVE SkipNonBrackets(_, _)
SkipNonBrackets(s, p) ==
    IF p < Len(s) /\ ~IsBracket(At(s, p)) THEN SkipNonBrackets(s, p + 1) ELSE p

\* [^\[\]]*(?:\[[^\[\]]*\][^\[\]]*)*\]\] from index p: the index after the
\* closing "]]", or -1.  A "[" must open a group [ ... ] free of brackets.
RECURSIVE ImageBodyEnd(_, _)
ImageBodyEnd(s, p) ==
    LET b == SkipNonBrackets(s, p)
        c == SkipNonBrackets(s, b + 1)
    IN  IF b >= Len(s) THEN -1
        ELSE IF At(s, b) = "]"
        THEN (IF StartsWithAt(s, b, <<"]", "]">>) THEN b + 2 ELSE -1)
        ELSE IF c < Len(s) /\ At(s, c) = "]" THEN ImageBodyEnd(s, c + 1)
        ELSE -1

\* the pattern of line 132 at index p: the index after the match, or -1
ImageEnd(s, p) ==
    LET ns == IF StartsWithAt(s, p, <<"[", "[", ":">>) THEN p + 3 ELSE p + 2
    IN  IF /\ StartsWithAt(s, p, <<"[", "[">>)
           /\ ns + 1 < Len(s)
           /\ IsImageNamespace(At(s, ns))
           /\ At(s, ns + 1) = ":"
        THEN ImageBodyEnd(s, ns + 2) ELSE -1

\* remove_images: one re.sub pass of the image pattern
RECURSIVE remove_images(_, _)
remove_images(s, p) ==
    IF p >= Len(s) THEN <<>>
    ELSE IF ImageEnd(s, p) # -1 THEN remove_images(s, ImageEnd(s, p))
    ELSE <<At(s, p)>> \o remove_images(s, p + 1)

\* the loop of lines 136-140: at most n passes, stopping at a fixed point
RECURSIVE ImagePasses(_, _)
ImagePasses(s, n) ==
    IF n = 0 THEN s
    ELSE LET new_text == remove_images(s, 0)
         IN  IF new_text = s THEN s ELSE ImagePasses(new_text, n - 1)

\* the symbols that are not word characters (\W); every other symbol is a
\* word, or a phrase that starts and ends with a word character
NonWordSymbols ==
    { " ", "\t", NL, "\r", "[", "]", "|", ":", "=", QUOTE, "{", "}", "(", ")",
      "!", "-", "+", "*", "#", "\"", ".", ",", "/",
      "<!--", "-->", "<ref>", "<ref/>", "</ref>", "<nowiki>", "</nowiki>",
      "<br>", "<br/>", "<gallery>", "</gallery>", "http://", "https://", "ftp://" }

IsWord(c) == c \notin NonWordSymbols

\* thumb|thumbnail|frame|frameless|border|left|right|center|none|\d+px
IsImageParameter(c) ==
    c \in { "thumb", "thumbnail", "frame", "frameless", "border", "left", "right",
            "center", "none", "300px", "25px" }

\* \b(?:thumb|...)\b at index p: a parameter word with no word next to it
ParameterAt(s, p) ==
    /\ IsImageParameter(At(s, p))
    /\ (p = 0 \/ ~IsWord(At(s, p - 1)))
    /\ (p + 1 >= Len(s) \/ ~IsWord(At(s, p + 1)))

\* line 143: the parameter word and the pipe after it, if any, removed
RECURSIVE SubParameters(_, _)
SubParameters(s, p) ==
    IF p >= Len(s) THEN <<>>
    ELSE IF ParameterAt(s, p)
    THEN SubParameters(s, IF p + 1 < Len(s) /\ At(s, p + 1) = "|" THEN p + 2 ELSE p + 1)
    ELSE <<At(s, p)>> \o SubParameters(s, p + 1)

\* ^\s*\)\s*\]\] (MULTILINE) at index p: the index after the match, or -1
LeftoverEnd(s, p) ==
    LET a == SkipSpace(s, p)
        b == SkipSpace(s, a + 1)
    IN  IF /\ (p = 0 \/ At(s, p - 1) = NL)
           /\ a < Len(s) /\ At(s, a) = ")"
           /\ StartsWithAt(s, b, <<"]", "]">>)
        THEN b + 2 ELSE -1

RECURSIVE SubLeftover(_, _)
SubLeftover(s, p) ==
    IF p >= Len(s) THEN <<>>
    ELSE IF LeftoverEnd(s, p) # -1 THEN SubLeftover(s, LeftoverEnd(s, p))
    ELSE <<At(s, p)>> \o SubLeftover(s, p + 1)

\* \(\s*\) removed (line 147)
RECURSIVE SubEmptyParens(_, _)
SubEmptyParens(s, p) ==
    IF p >= Len(s) THEN <<>>
    ELSE IF At(s, p) = "(" /\ SkipSpace(s, p + 1) < Len(s)
                          /\ At(s, SkipSpace(s, p + 1)) = ")"
    THEN SubEmptyParens(s, SkipSpace(s, p + 1) + 1)
    ELSE <<At(s, p)>> \o SubEmptyParens(s, p + 1)

IMAGE_PASSES == 3

remove_images_and_files(s) ==
    SubEmptyParens(SubLeftover(SubParameters(ImagePasses(s, IMAGE_PASSES), 0), 0), 0)

(***************************************************************************)
(* convert_external_links                                                  *)
(***************************************************************************)
IsScheme(c) == c \in {"http://", "https://", "ftp://"}

\* the index of the first symbol at or after p that is whitespace or "]"
RECURSIVE UrlEnd(_, _)
UrlEnd(s, p) ==
    IF p < Len(s) /\ ~IsSpace(At(s, p)) /\ At(s, p) # "]" THEN UrlEnd(s, p + 1) ELSE p

\* \[(?:https?://|ftp://)([^\s\]]+)(?:\s+([^\]]+))?\] at index p.  The label
\* is what lies between the whitespace after the URL and the next "]"; when
\* nothing does, the greedy \s+ gives its last symbol to the label.
ExternalLink(s, p) ==
    LET u == UrlEnd(s, p + 2)
        w == SkipSpace(s, u)
        close == Find(s, "]", w)
        no == [matched |-> FALSE, next |-> p, label |-> <<>>]
    IN  IF ~(StartsWithAt(s, p, <<"[">>) /\ p + 1 < Len(s) /\ IsScheme(At(s, p + 1))
                /\ u > p + 2 /\ close # -1)
        THEN no
        ELSE IF w = u THEN [matched |-> TRUE, next |-> close + 1, label |-> <<>>]
        ELSE IF close > w
        THEN [matched |-> TRUE, next |-> close + 1, label |-> Slice(s, w, close)]
        ELSE IF w - u >= 2
        THEN [matched |-> TRUE, next |-> close + 1, label |-> Slice(s, w - 1, w)]
        ELSE no

RECURSIVE SubExternalLinks(_, _)
SubExternalLinks(s, p) ==
    IF p >= Len(s) THEN <<>>
    ELSE IF ExternalLink(s, p).matched
    THEN ExternalLink(s, p).label \o SubExternalLinks(s, ExternalLink(s, p).next)
    ELSE <<At(s, p)>> \o SubExternalLinks(s, p + 1)

convert_external_links(s) == SubExternalLinks(s, 0)

(***************************************************************************)
(* convert_internal_links                                                  *)
(***************************************************************************)
\* the index of the first symbol at or after p that is in stops, Len(s) if none
RECURSIVE SkipUntil(_, _, _)
SkipUntil(s, p, stops) ==
    IF p < Len(s) /\ At(s, p) \notin stops THEN SkipUntil(s, p + 1, stops) ELSE p

\* the prefixes of line 203, as page.lower().split(':', 1)[0] finds them
IsDroppedPrefix(prefix) ==
    prefix \in { <<"file">>, <<"File">>, <<"FILE">>, <<"image">>, <<"Image">>,
                 <<"IMAGE">>, <<"category">>, <<"Category">>, <<"help">>, <<"Help">>,
                 <<"wikipedia">>, <<"Wikipedia">>, <<"படிமம்">>, <<"கோப்பு">> }

\* int_link_repl returning the page where line 206 returns the label
int_link_repl_Page(page, label) ==
    IF Find(page, ":", 0) # -1 /\ IsDroppedPrefix(Slice(page, 0, Find(page, ":", 0)))
    THEN <<>>
    ELSE page

\* int_link_repl(m) for the groups page and label (None when absent)
int_link_repl(page, label) ==
    IF Find(page, ":", 0) # -1 /\ IsDroppedPrefix(Slice(page, 0, Find(page, ":", 0)))
    THEN <<>>
    ELSE IF label # None /\ label # <<>> THEN label ELSE page

\* \[\[([^|\]]+)(?:\|([^]]+))?\]\] at index p
InternalLink(s, p) ==
    LET a == SkipUntil(s, p + 2, {"|", "]"})
        b == SkipUntil(s, a + 1, {"]"})
        no == [matched |-> FALSE, next |-> p, page |-> <<>>, label |-> None]
    IN  IF ~(StartsWithAt(s, p, <<"[", "[">>) /\ a > p + 2 /\ a < Len(s)) THEN no
        ELSE IF At(s, a) = "]"
        THEN (IF StartsWithAt(s, a, <<"]", "]">>)
              THEN [matched |-> TRUE, next |-> a + 2,
                    page |-> Slice(s, p + 2, a), label |-> None]
              ELSE no)
        ELSE IF b > a + 1 /\ StartsWithAt(s, b, <<"]", "]">>)
        THEN [matched |-> TRUE, next |-> b + 2,
              page |-> Slice(s, p + 2, a), label |-> Slice(s, a + 1, b)]
        ELSE no

RECURSIVE SubInternalLinks(_, _)
SubInternalLinks(s, p) ==
    IF p >= Len(s) THEN <<>>
    ELSE IF InternalLink(s, p).matched
    THEN int_link_repl(InternalLink(s, p).page, InternalLink(s, p).label)
             \o SubInternalLinks(s, InternalLink(s, p).next)
    ELSE <<At(s, p)>> \o SubInternalLinks(s, p + 1)

convert_internal_links(s) == SubInternalLinks(s, 0)

(***************************************************************************)
(* remove_html_attributes                                                  *)
(***************************************************************************)
remove_html_attributes(s) == SubAttr(SubAttr(s, 0, "\""), 0, QUOTE)

(***************************************************************************)
(* remove_metadata_sections                                                *)
(***************************************************************************)
\* the five patterns of lines 165-169, in order; matched ignoring case
metadata_sections ==
    << { "இவற்றையும் பார்க்க", "இவற்றையும் பார்க்கவும்", "See also", "see also",
         "மேலும் காண்க" },
       { "மேற்கோள்கள்", "References", "references", "குறிப்புகள்", "சான்றுகள்" },
       { "வெளி இணைப்புகள்", "External links", "external links", "புற இணைப்புகள்" },
       { "நூற்பட்டியல்", "Bibliography", "bibliography", "நூல்கள்" },
       { "மேலும் படிக்க", "Further reading", "further reading" } >>

\* ==\s*(?:names)\s*== at index p
SectionAt(s, p, names) ==
    LET a == SkipSpace(s, p + 2)
        b == SkipSpace(s, a + 1)
    IN  /\ StartsWithAt(s, p, <<"=", "=">>)
        /\ a < Len(s) /\ At(s, a) \in names
        /\ StartsWithAt(s, b, <<"=", "=">>)

\* re.sub(pattern + '.*', '', s, flags=DOTALL): s cut at the first match
RECURSIVE CutSection(_, _, _)
CutSection(s, p, names) ==
    IF p >= Len(s) THEN s
    ELSE IF SectionAt(s, p, names) THEN Slice(s, 0, p)
    ELSE CutSection(s, p + 1, names)

RECURSIVE CutSections(_, _)
CutSections(s, k) ==
    IF k > Len(metadata_sections) THEN s
    ELSE CutSections(CutSection(s, 0, metadata_sections[k]), k + 1)

remove_metadata_sections(s) == CutSections(s, 1)

(***************************************************************************)
(* normalize_whitespace                                                    *)
(***************************************************************************)
\* the number of newlines in s[p:q]
RECURSIVE CountNewlines(_, _, _)
CountNewlines(s, p, q) ==
    IF p >= q THEN 0
    ELSE (IF At(s, p) = NL THEN 1 ELSE 0) + CountNewlines(s, p + 1, q)

\* the index of the last newline of s before index q
RECURSIVE LastNewline(_, _)
LastNewline(s, q) == IF At(s, q - 1) = NL THEN q - 1 ELSE LastNewline(s, q - 1)

\* CollapseBlankLines for the pattern \n{3,}: newlines next to each other only
RECURSIVE CollapseBlankLines_Literal(_, _)
CollapseBlankLines_Literal(s, p) ==
    IF p >= Len(s) THEN <<>>
    ELSE IF RunAt(s, p, NL) >= 3
    THEN <<NL, NL>> \o CollapseBlankLines_Literal(s, p + RunAt(s, p, NL))
    ELSE <<At(s, p)>> \o CollapseBlankLines_Literal(s, p + 1)

\* re.sub(r'\n\s*\n\s*\n+', '\n\n', s): a run of whitespace that starts with a
\* newline and holds three or more is replaced, up to its last newline
RECURSIVE CollapseBlankLines(_, _)
CollapseBlankLines(s, p) ==
    IF p >= Len(s) THEN <<>>
    ELSE IF At(s, p) = NL /\ CountNewlines(s, p, SkipSpace(s, p)) >= 3
    THEN <<NL, NL>> \o CollapseBlankLines(s, LastNewline(s, SkipSpace(s, p)) + 1)
    ELSE <<At(s, p)>> \o CollapseBlankLines(s, p + 1)

IsBlank(c) == c \in {" ", "\t"}

\* re.sub(r'[ \t]+', ' ', s)
RECURSIVE CollapseSpaces(_, _)
CollapseSpaces(s, p) ==
    IF p >= Len(s) THEN <<>>
    ELSE IF IsBlank(At(s, p))
    THEN IF p > 0 /\ IsBlank(At(s, p - 1)) THEN CollapseSpaces(s, p + 1)
         ELSE <<" ">> \o CollapseSpaces(s, p + 1)
    ELSE <<At(s, p)>> \o CollapseSpaces(s, p + 1)

normalize_whitespace(s) == CollapseSpaces(CollapseBlankLines(s, 0), 0)

(***************************************************************************)
(* Line recognisers                                                        *)
(***************************************************************************)
\* should_skip_line recognising no line
should_skip_line_Never(line) == FALSE

should_skip_line(line) ==
    line \in { <<"]", "]">>, <<")">>, <<")", " ", "]", "]">>, <<"|">>, <<"|", "|">> }

\* process_horizontal_rule: ^-+$
process_horizontal_rule(line) ==
    IF line # <<>> /\ RunAt(line, 0, "-") = Len(line)
    THEN [is_hr |-> TRUE, line |-> <<"-", "-", "-">>]
    ELSE [is_hr |-> FALSE, line |-> None]

\* the length of the run of list markers that starts the line: ^([*#]+)
RECURSIVE MarkerRun(_)
MarkerRun(line) ==
    IF line # <<>> /\ Head(line) \in {"*", "#"} THEN 1 + MarkerRun(Tail(line)) ELSE 0

\* process_list_item deciding by the last marker where line 291 takes the first
process_list_item_LastMarker(line) ==
    LET markers == Slice(line, 0, MarkerRun(line))
        content == convert_formatting(Strip(Drop(line, MarkerRun(line))))
        indent == Repeat(" ", 2 * (Len(markers) - 1))
    IN  IF markers = <<>> THEN [is_list |-> FALSE, line |-> None]
        ELSE IF markers[Len(markers)] = "*"
        THEN [is_list |-> TRUE, line |-> indent \o <<"-", " ">> \o content]
        ELSE [is_list |-> TRUE, line |-> indent \o <<"1", ".", " ">> \o content]

\* process_list_item: ^([*#]+)\s*(.*)
process_list_item(line) ==
    LET markers == Slice(line, 0, MarkerRun(line))
        content == convert_formatting(Strip(Drop(line, MarkerRun(line))))
        indent == Repeat(" ", 2 * (Len(markers) - 1))
    IN  IF markers = <<>> THEN [is_list |-> FALSE, line |-> None]
        ELSE IF markers[1] = "*"
        THEN [is_list |-> TRUE, line |-> indent \o <<"-", " ">> \o content]
        ELSE [is_list |-> TRUE, line |-> indent \o <<"1", ".", " ">> \o content]

(***************************************************************************)
(* convert_wikitable_to_markdown                                           *)
(***************************************************************************)
\* CleanCells without the test of lines 425 and 439: empty cells are kept
RECURSIVE CleanCells_KeepEmpty(_, _)
CleanCells_KeepEmpty(cells, mark) ==
    IF cells = <<>> THEN <<>>
    ELSE LET stripped == Strip(LStripChars(Head(cells), {mark}))
             cell == IF Find(stripped, "|", 0) # -1
                     THEN Strip(AfterLast(stripped, "|")) ELSE stripped
         IN  << convert_formatting(cell) >> \o CleanCells_KeepEmpty(Tail(cells), mark)

\* lines 419-427 and 433-441: the cells of one row, cleaned, empty ones dropped
RECURSIVE CleanCells(_, _)
CleanCells(cells, mark) ==
    IF cells = <<>> THEN <<>>
    ELSE LET stripped == Strip(LStripChars(Head(cells), {mark}))
             cell == IF Find(stripped, "|", 0) # -1
                     THEN Strip(AfterLast(stripped, "|")) ELSE stripped
         IN  (IF cell # <<>> THEN << convert_formatting(cell) >> ELSE <<>>)
                 \o CleanCells(Tail(cells), mark)

\* ParseRow with the caption test of line 444 not asking for rows to be empty
ParseRow_NoRowsTest(row_text0, acc) ==
    LET row_text == Strip(row_text0)
    IN  IF row_text = <<>> \/ StartsWith(row_text, <<"{", "|">>)
                          \/ StartsWith(row_text, <<"|", "}">>)
        THEN acc
        ELSE IF StartsWith(row_text, <<"!">>)
        THEN LET cleaned_cells == CleanCells(Split(row_text, "header"), "!")
             IN  IF acc.headers = <<>> /\ cleaned_cells # <<>>
                 THEN [acc EXCEPT !.headers = cleaned_cells] ELSE acc
        ELSE IF StartsWith(row_text, <<"|">>)
        THEN LET cleaned_cells == CleanCells(Split(row_text, "cell"), "|")
             IN  IF Len(cleaned_cells) = 1 /\ acc.headers = <<>>
                 THEN [acc EXCEPT !.caption = cleaned_cells[1]]
                 ELSE IF cleaned_cells # <<>>
                 THEN [acc EXCEPT !.rows = Append(@, cleaned_cells)]
                 ELSE acc
        ELSE acc

\* ParseRow keeping a caption that is already set where line 445 replaces it
ParseRow_KeepCaption(row_text0, acc) ==
    LET row_text == Strip(row_text0)
    IN  IF row_text = <<>> \/ StartsWith(row_text, <<"{", "|">>)
                          \/ StartsWith(row_text, <<"|", "}">>)
        THEN acc
        ELSE IF StartsWith(row_text, <<"!">>)
        THEN LET cleaned_cells == CleanCells(Split(row_text, "header"), "!")
             IN  IF acc.headers = <<>> /\ cleaned_cells # <<>>
                 THEN [acc EXCEPT !.headers = cleaned_cells] ELSE acc
        ELSE IF StartsWith(row_text, <<"|">>)
        THEN LET cleaned_cells == CleanCells(Split(row_text, "cell"), "|")
             IN  IF Len(cleaned_cells) = 1 /\ acc.headers = <<>> /\ acc.rows = <<>>
                 THEN (IF acc.caption = None
                       THEN [acc EXCEPT !.caption = cleaned_cells[1]] ELSE acc)
                 ELSE IF cleaned_cells # <<>>
                 THEN [acc EXCEPT !.rows = Append(@, cleaned_cells)]
                 ELSE acc
        ELSE acc

\* one iteration of the loop over table_rows (lines 412-447)
ParseRow(row_text0, acc) ==
    LET row_text == Strip(row_text0)
    IN  IF row_text = <<>> \/ StartsWith(row_text, <<"{", "|">>)
                          \/ StartsWith(row_text, <<"|", "}">>)
        THEN acc
        ELSE IF StartsWith(row_text, <<"!">>)
        THEN LET cleaned_cells == CleanCells(Split(row_text, "header"), "!")
             IN  IF acc.headers = <<>> /\ cleaned_cells # <<>>
                 THEN [acc EXCEPT !.headers = cleaned_cells] ELSE acc
        ELSE IF StartsWith(row_text, <<"|">>)
        THEN LET cleaned_cells == CleanCells(Split(row_text, "cell"), "|")
             IN  IF Len(cleaned_cells) = 1 /\ acc.headers = <<>> /\ acc.rows = <<>>
                 THEN [acc EXCEPT !.caption = cleaned_cells[1]]
                 ELSE IF cleaned_cells # <<>>
                 THEN [acc EXCEPT !.rows = Append(@, cleaned_cells)]
                 ELSE acc
        ELSE acc

RECURSIVE ParseRows(_, _)
ParseRows(table_rows, acc) ==
    IF table_rows = <<>> THEN acc
    ELSE ParseRows(Tail(table_rows), ParseRow(Head(table_rows), acc))

\* lines 393-453: caption, headers and rows of a table block; headers = <<>>
\* stands for the early return ""
ParseTable(table_lines0) ==
    LET has_caption == Len(table_lines0) > 1 /\ StartsWith(table_lines0[2], <<"|", "+">>)
        caption0 == IF has_caption
                    THEN Strip(LStripChars(table_lines0[2], {"|", "+"})) ELSE None
        table_lines == IF has_caption
                       THEN << table_lines0[1] >> \o SubSeq(table_lines0, 3, Len(table_lines0))
                       ELSE table_lines0
        full_text == SubAttr(SubAttrPipe(Join(table_lines, <<NL>>), 0), 0, "\"")
        parsed == ParseRows(Split(full_text, "row"),
                            [headers |-> <<>>, rows |-> <<>>, caption |-> caption0])
    IN  IF parsed.headers = <<>> /\ parsed.rows # <<>>
        THEN [parsed EXCEPT !.headers = Head(parsed.rows), !.rows = Tail(parsed.rows)]
        ELSE parsed

RECURSIVE MaxRowLen(_)
MaxRowLen(rows) ==
    IF rows = <<>> THEN 0 ELSE Max(Len(Head(rows)), MaxRowLen(Tail(rows)))

\* "| " + " | ".join(cells) + " |"
RenderRow(cells) == <<"|", " ">> \o Join(cells, <<" ", "|", " ">>) \o <<" ", "|">>

\* lines 468-474: a row padded or truncated to the width of the header
FitRow(row, width) ==
    IF Len(row) < width THEN row \o [k \in 1 .. width - Len(row) |-> <<>>]
    ELSE IF Len(row) > width THEN SubSeq(row, 1, width)
    ELSE row

\* RenderTable without the padding of the header of lines 459-460
RenderTable_NoPad(t) ==
    LET headers == t.headers
        md == (IF t.caption # None /\ t.caption # <<>>
               THEN << <<"*", "*">> \o t.caption \o <<"*", "*", NL>> >> ELSE <<>>)
              \o << RenderRow(headers) >>
              \o << RenderRow([k \in 1 .. Len(headers) |-> <<"-", "-", "-">>]) >>
              \o [k \in 1 .. Len(t.rows) |-> RenderRow(FitRow(t.rows[k], Len(headers)))]
              \o << <<>> >>
    IN  Join(md, <<NL>>)

\* lines 455-477: the Markdown text of a parsed table
RenderTable(t) ==
    LET max_cols == Max(Len(t.headers), MaxRowLen(t.rows))
        headers == t.headers \o [k \in 1 .. max_cols - Len(t.headers) |-> <<>>]
        md == (IF t.caption # None /\ t.caption # <<>>
               THEN << <<"*", "*">> \o t.caption \o <<"*", "*", NL>> >> ELSE <<>>)
              \o << RenderRow(headers) >>
              \o << RenderRow([k \in 1 .. Len(headers) |-> <<"-", "-", "-">>]) >>
              \o [k \in 1 .. Len(t.rows) |-> RenderRow(FitRow(t.rows[k], Len(headers)))]
              \o << <<>> >>
    IN  Join(md, <<NL>>)

convert_wikitable_to_markdown(table_lines) ==
    LET t == ParseTable(table_lines)
    IN  IF t.headers = <<>> THEN <<>> ELSE RenderTable(t)

\* TableEnd counting the open markers on the way: the close marker that
\* pairs with the open marker of the block
RECURSIVE TableEndDepth(_, _, _)
TableEndDepth(ls, k, depth) ==
    IF k >= Len(ls) THEN k
    ELSE IF StartsWith(Strip(At(ls, k)), <<"|", "}">>)
    THEN (IF depth = 0 THEN k ELSE TableEndDepth(ls, k + 1, depth - 1))
    ELSE IF StartsWith(Strip(At(ls, k)), <<"{", "|">>)
    THEN TableEndDepth(ls, k + 1, depth + 1)
    ELSE TableEndDepth(ls, k + 1, depth)

TableEnd_Nested(ls, k) == TableEndDepth(ls, k, 0)

\* TableEnd stopping at the first line that starts with a pipe
RECURSIVE TableEnd_FirstPipe(_, _)
TableEnd_FirstPipe(ls, k) ==
    IF k < Len(ls) /\ ~StartsWith(Strip(At(ls, k)), <<"|">>)
    THEN TableEnd_FirstPipe(ls, k + 1) ELSE k

(***************************************************************************)
(* process_table_block                                                     *)
(***************************************************************************)
\* the while loop of lines 306-308: the index of the first line at or after k
\* that starts with "|}" once stripped, Len(ls) if there is none
RECURSIVE TableEnd(_, _)
TableEnd(ls, k) ==
    IF k < Len(ls) /\ ~StartsWith(Strip(At(ls, k)), <<"|", "}">>)
    THEN TableEnd(ls, k + 1) ELSE k

\* process_table_block returning i where line 315 returns i + 1
process_table_block_ReturnI(ls, start_index) ==
    LET e == TableEnd(ls, start_index + 1)
        last == IF e < Len(ls) THEN e + 1 ELSE e
        table_lines == [k \in 1 .. last - start_index |-> Strip(At(ls, start_index + k - 1))]
    IN  [end_index |-> e,
         lines |-> splitlines(convert_wikitable_to_markdown(table_lines)),
         consumed |-> Len(table_lines)]

\* process_table_block(lines, start_index): (end_index, markdown_lines), and
\* the number of input lines collected into table_lines
process_table_block(ls, start_index) ==
    LET e == TableEnd(ls, start_index + 1)
        last == IF e < Len(ls) THEN e + 1 ELSE e
        table_lines == [k \in 1 .. last - start_index |-> Strip(At(ls, start_index + k - 1))]
    IN  [end_index |-> e + 1,
         lines |-> splitlines(convert_wikitable_to_markdown(table_lines)),
         consumed |-> Len(table_lines)]

(***************************************************************************)
(* remove_templates                                                        *)
(***************************************************************************)
OPEN == <<"{", "{">>

CLOSE == <<"}", "}">>

\* InnerScan with the count set to one at an open marker where line 62 adds one
RECURSIVE InnerScan_NoNesting(_, _, _)
InnerScan_NoNesting(s, j, brace_count) ==
    IF j >= Len(s) THEN [matched |-> FALSE, next |-> j, brace_count |-> brace_count]
    ELSE IF StartsWithAt(s, j, OPEN) THEN InnerScan_NoNesting(s, j + 2, 1)
    ELSE IF StartsWithAt(s, j, CLOSE)
    THEN IF brace_count - 1 = 0
         THEN [matched |-> TRUE, next |-> j + 2, brace_count |-> 0]
         ELSE InnerScan_NoNesting(s, j + 2, brace_count - 1)
    ELSE InnerScan_NoNesting(s, j + 1, brace_count)

\* the inner while loop (lines 60-72), entered at j with the given count
RECURSIVE InnerScan(_, _, _)
InnerScan(s, j, brace_count) ==
    IF j >= Len(s) THEN [matched |-> FALSE, next |-> j, brace_count |-> brace_count]
    ELSE IF StartsWithAt(s, j, OPEN) THEN InnerScan(s, j + 2, brace_count + 1)
    ELSE IF StartsWithAt(s, j, CLOSE)
    THEN IF brace_count - 1 = 0
         THEN [matched |-> TRUE, next |-> j + 2, brace_count |-> 0]
         ELSE InnerScan(s, j + 2, brace_count - 1)
    ELSE InnerScan(s, j + 1, brace_count)

\* IsRecoveryLine without the blank-line test of line 99
IsRecoveryLine_NoBlank(next_line) ==
    \/ StartsWith(next_line, <<"=", "=">>)
    \/ StartsWith(next_line, <<QUOTE, QUOTE, QUOTE>>)

\* the line that resynchronises the scan: blank, a section header, a bold title
IsRecoveryLine(next_line) ==
    \/ next_line = <<>>
    \/ StartsWith(next_line, <<"=", "=">>)
    \/ StartsWith(next_line, <<QUOTE, QUOTE, QUOTE>>)

\* the recovery loop (lines 78-107): the new value of i
RECURSIVE Recover(_, _)
Recover(s, search_pos) ==
    IF search_pos >= Len(s) THEN Len(s)
    ELSE LET newline_pos == Find(s, NL, search_pos)
             next_line_start == newline_pos + 1
             e == Find(s, NL, next_line_start)
             next_line_end == IF e = -1 THEN Len(s) ELSE e
             next_line == Strip(Slice(s, next_line_start, next_line_end))
         IN  IF newline_pos = -1 THEN Len(s)
             ELSE IF next_line_start >= Len(s) THEN Len(s)
             ELSE IF IsRecoveryLine(next_line) THEN next_line_start
             ELSE Recover(s, newline_pos + 1)

\* TemplateIteration with the assignment of line 83 left out: an unterminated
\* template with no newline after it leaves the cursor where it is
TemplateIteration_NoLine83(s, k) ==
    IF k < Len(s) - 1 /\ Slice(s, k, k + 2) = OPEN
    THEN LET scan == InnerScan(s, k, 0)
         IN  IF scan.brace_count # 0
             THEN [next |-> IF Find(s, NL, k + 2) = -1 THEN k ELSE Recover(s, k + 2),
                   emit |-> <<>>, branch |-> "recover"]
             ELSE [next |-> scan.next, emit |-> <<>>, branch |-> "skip"]
    ELSE [next |-> k + 1, emit |-> <<At(s, k)>>, branch |-> "emit"]

\* one iteration of the outer while loop (lines 53-111) at cursor k:
\* the next cursor, the characters appended, and which branch ran
TemplateIteration(s, k) ==
    IF k < Len(s) - 1 /\ Slice(s, k, k + 2) = OPEN
    THEN LET scan == InnerScan(s, k, 0)
         IN  IF scan.brace_count # 0
             THEN [next |-> Recover(s, k + 2), emit |-> <<>>, branch |-> "recover"]
             ELSE [next |-> scan.next, emit |-> <<>>, branch |-> "skip"]
    ELSE [next |-> k + 1, emit |-> <<At(s, k)>>, branch |-> "emit"]

RECURSIVE TemplateLoop(_, _, _)
TemplateLoop(s, k, acc) ==
    IF k >= Len(s) THEN acc
    ELSE LET it == TemplateIteration(s, k)
         IN  TemplateLoop(s, it.next, acc \o it.emit)

remove_templates(s) == TemplateLoop(s, 0, <<>>)

(***************************************************************************)
(* process_lines_to_markdown and wikitext_to_markdown                      *)
(***************************************************************************)
\* one iteration of the while loop of lines 326-369 at line index k: the next
\* index, the output lines appended, the branch taken and the number of
\* input lines the iteration has read
LineIteration(ls, k) ==
    LET line == Strip(At(ls, k))
        table == process_table_block(ls, k)
        heading == process_heading(line)
        hr == process_horizontal_rule(line)
        item == process_list_item(line)
    IN  IF should_skip_line(line)
        THEN [next |-> k + 1, emit |-> <<>>, branch |-> "skip", read |-> 1]
        ELSE IF StartsWith(line, <<"{", "|">>)
        THEN [next |-> table.end_index, emit |-> table.lines, branch |-> "table",
              read |-> table.consumed]
        ELSE IF heading.is_heading
        THEN [next |-> k + 1,
              emit |-> IF heading.line # None THEN << heading.line >> ELSE <<>>,
              branch |-> "heading", read |-> 1]
        ELSE IF hr.is_hr
        THEN [next |-> k + 1, emit |-> << hr.line >>, branch |-> "rule", read |-> 1]
        ELSE IF item.is_list
        THEN [next |-> k + 1, emit |-> << item.line >>, branch |-> "list", read |-> 1]
        ELSE IF line = <<>>
        THEN [next |-> k + 1, emit |-> << <<>> >>, branch |-> "blank", read |-> 1]
        ELSE [next |-> k + 1, emit |-> << convert_formatting(line) \o <<" ", " ">> >>,
              branch |-> "plain", read |-> 1]

RECURSIVE LinesLoop(_, _, _)
LinesLoop(ls, k, acc) ==
    IF k >= Len(ls) THEN acc
    ELSE CHOOSE r \in { LinesLoop(ls, it.next, acc \o it.emit) :
                           it \in { LineIteration(ls, k) } } : TRUE

process_lines_to_markdown(ls) == LinesLoop(ls, 0, <<>>)

\* steps 1-9 of wikitext_to_markdown (lines 507-531)
CleanText(s) ==
    normalize_whitespace(
      remove_metadata_sections(
        remove_html_attributes(
          convert_internal_links(
            convert_external_links(
              remove_images_and_files(
                remove_categories(
                  remove_templates(
                    remove_html_comments_and_tags(s)))))))))

wikitext_to_markdown(wiki_text) ==
    Join(process_lines_to_markdown(splitlines(CleanText(wiki_text))), <<NL>>)

(***************************************************************************)
(* The Template Eliminator as a state machine: one action per iteration    *)
(* of the outer loop.                                                      *)
(***************************************************************************)
MaxPieces == 4

TemplatePieces ==
    { <<"{", "{">>, <<"}", "}">>, <<"}">>, <<"{", "{", "{">>,
      <<"x">>, <<NL>>, <<NL, "=", "=">>, <<NL, QUOTE, QUOTE, QUOTE>> }

PieceSeqs(pool, n) == UNION { [1 .. m -> pool] : m \in 0 .. n }

TemplateInputs == { Concat(ps) : ps \in PieceSeqs(TemplatePieces, MaxPieces) }

InitTemplates ==
    /\ text \in TemplateInputs
    /\ lines = <<>>
    /\ i = 0
    /\ result = <<>>
    /\ out = None
    /\ pc = "scan"

TemplateSkip ==
    /\ pc = "scan"
    /\ i < Len(text)
    /\ TemplateIteration(text, i).branch = "skip"
    /\ i' = TemplateIteration(text, i).next
    /\ UNCHANGED <<text, lines, result, out, pc>>

TemplateRecover ==
    /\ pc = "scan"
    /\ i < Len(text)
    /\ TemplateIteration(text, i).branch = "recover"
    /\ i' = TemplateIteration(text, i).next
    /\ UNCHANGED <<text, lines, result, out, pc>>

TemplateEmit ==
    /\ pc = "scan"
    /\ i < Len(text)
    /\ TemplateIteration(text, i).branch = "emit"
    /\ i' = TemplateIteration(text, i).next
    /\ result' = result \o TemplateIteration(text, i).emit
    /\ UNCHANGED <<text, lines, out, pc>>

TemplateReturn ==
    /\ pc = "scan"
    /\ i >= Len(text)
    /\ out' = result
    /\ pc' = "done"
    /\ UNCHANGED <<text, lines, i, result>>

NextTemplates == TemplateSkip \/ TemplateRecover \/ TemplateEmit \/ TemplateReturn

SpecTemplates == InitTemplates /\ [][NextTemplates]_vars

\* the loop of remove_templates runs on: an enabled iteration is taken
FairTemplates == SpecTemplates /\ WF_vars(NextTemplates)

(***************************************************************************)
(* Well-balanced template markers.  TokenBalanced reads the markers as the *)
(* scan of remove_templates reads them (left to right, a marker takes two  *)
(* characters); OccurrenceBalanced counts every occurrence of "{{" and     *)
(* "}}", overlapping ones included.  An input is well balanced when it is  *)
(* balanced under both readings.                                           *)
(***************************************************************************)
RECURSIVE TokenBalancedFrom(_, _, _)
TokenBalancedFrom(s, k, depth) ==
    IF k >= Len(s) THEN depth = 0
    ELSE IF StartsWithAt(s, k, OPEN) THEN TokenBalancedFrom(s, k + 2, depth + 1)
    ELSE IF StartsWithAt(s, k, CLOSE)
    THEN depth > 0 /\ TokenBalancedFrom(s, k + 2, depth - 1)
    ELSE TokenBalancedFrom(s, k + 1, depth)

RECURSIVE OccurrenceBalancedFrom(_, _, _)
OccurrenceBalancedFrom(s, k, depth) ==
    IF k >= Len(s) THEN depth = 0
    ELSE IF StartsWithAt(s, k, OPEN) THEN OccurrenceBalancedFrom(s, k + 1, depth + 1)
    ELSE IF StartsWithAt(s, k, CLOSE)
    THEN depth > 0 /\ OccurrenceBalancedFrom(s, k + 1, depth - 1)
    ELSE OccurrenceBalancedFrom(s, k + 1, depth)

WellBalanced(s) == TokenBalancedFrom(s, 0, 0) /\ OccurrenceBalancedFrom(s, 0, 0)

\* C1: for every input whose template markers are well balanced, the output
\* of remove_templates contains no "{{" and no "}}".
C1_NoMarkerInOutput ==
    (pc = "done" /\ WellBalanced(text)) =>
        (~Occurs(out, OPEN) /\ ~Occurs(out, CLOSE))

\* C5: remove_templates terminates on every input, balanced or not: every
\* iteration of the outer scan moves the cursor strictly forward (by one
\* character, past a matched close marker, to the start of a later line, or
\* to the end of the input) and never past the end, and the scan returns.
C5_CursorAdvances ==
    /\ [][(pc = "scan" /\ pc' = "scan") =>
            /\ i' > i
            /\ i' <= Len(text)
            /\ \/ i' = i + 1
               \/ i' >= i + 4 /\ Slice(text, i' - 2, i') = CLOSE
               \/ At(text, i' - 1) = NL
               \/ i' = Len(text)]_vars
    /\ <>(pc = "done")

\* an unbalanced template has sent the cursor through the recovery branch
C5_Witness ==
    /\ pc = "done"
    /\ ~WellBalanced(text)
    /\ Occurs(text, OPEN)
    /\ Occurs(text, <<NL, "=", "=">>)
    /\ out # <<>>
    /\ Len(out) < Len(text)

(***************************************************************************)
(* convert_formatting applied once and then again to its own output        *)
(***************************************************************************)
MaxFormatPieces == 4

FormatPieces ==
    { <<QUOTE>>, <<QUOTE, QUOTE>>, <<QUOTE, QUOTE, QUOTE>>,
      <<QUOTE, QUOTE, QUOTE, QUOTE, QUOTE>>, <<"a">>, <<"*">>, <<NL>> }

FormatInputs == { Concat(ps) : ps \in PieceSeqs(FormatPieces, MaxFormatPieces) }

InitFormatting ==
    /\ text \in FormatInputs
    /\ lines = <<>>
    /\ i = 0
    /\ result = None
    /\ out = None
    /\ pc = "start"

FormatOnce ==
    /\ pc = "start"
    /\ result' = convert_formatting(text)
    /\ pc' = "once"
    /\ UNCHANGED <<text, lines, i, out>>

FormatTwice ==
    /\ pc = "once"
    /\ out' = convert_formatting(result)
    /\ pc' = "twice"
    /\ UNCHANGED <<text, lines, i, result>>

NextFormatting == FormatOnce \/ FormatTwice

SpecFormatting == InitFormatting /\ [][NextFormatting]_vars

\* C9: convert_formatting is idempotent: applied to its own output it
\* changes nothing.
C9_FormattingIdempotent == pc = "twice" => out = result

\* the first application rewrote emphasis and left apostrophes behind
C9_Witness ==
    /\ pc = "twice"
    /\ result # text
    /\ Occurs(result, <<QUOTE, QUOTE>>)
    /\ Occurs(result, <<"*", "*", "a">>)

(***************************************************************************)
(* process_heading applied to one line                                     *)
(***************************************************************************)
MaxMarkers == 7

HeadingTexts ==
    { <<"x">>, <<" ", "x", " ">>, <<"x", " ", "=", " ", "y">>,
      <<QUOTE, QUOTE, "x", QUOTE, QUOTE>>, <<"References">>,
      <<" ", "See also", " ">>, <<"உசாத்துணை">> }

HeadingLine(n, body, m) == Repeat("=", n) \o body \o Repeat("=", m)

HeadingInputs ==
    { HeadingLine(n, body, m) :
        n \in 0 .. MaxMarkers, body \in HeadingTexts, m \in 0 .. MaxMarkers }

InitHeading ==
    /\ text \in HeadingInputs
    /\ lines = <<>>
    /\ i = 0
    /\ result = <<>>
    /\ out = [is_heading |-> FALSE, line |-> None]
    /\ pc = "start"

ProcessHeading ==
    /\ pc = "start"
    /\ out' = process_heading(text)
    /\ pc' = "done"
    /\ UNCHANGED <<text, lines, i, result>>

NextHeading == ProcessHeading

SpecHeading == InitHeading /\ [][NextHeading]_vars

\* the heading '#' * min(n, 6) + ' ' + text, inline formatting converted
RenderedHeading(n, body) ==
    Repeat("#", Min(n, 6)) \o <<" ">> \o convert_formatting(Strip(body))

\* C10 as stated: a line of N '=', text, N '=' is rendered as a heading of
\* level min(N, 6), whatever the text; a line whose marker counts differ is
\* no heading.
C10_EveryHeadingRendered ==
    pc = "done" =>
        \A n \in 0 .. MaxMarkers, m \in 0 .. MaxMarkers, body \in HeadingTexts :
            (text = HeadingLine(n, body, m) /\ n + m > 0) =>
                IF n = m
                THEN out = [is_heading |-> TRUE, line |-> RenderedHeading(n, body)]
                ELSE out = [is_heading |-> FALSE, line |-> None]

\* C10 amended: a line of N '=', text, N '=' is classified as a heading; it is
\* rendered at level min(N, 6) unless the text is a metadata-section name of
\* skip_headings, for which no line is rendered; a line whose marker counts
\* differ is no heading.
C10_HeadingLevelClamp ==
    pc = "done" =>
        \A n \in 0 .. MaxMarkers, m \in 0 .. MaxMarkers, body \in HeadingTexts :
            text = HeadingLine(n, body, m) =>
                IF n # m \/ n = 0
                THEN out = [is_heading |-> FALSE, line |-> None]
                ELSE IF Strip(body) \in skip_headings
                THEN out = [is_heading |-> TRUE, line |-> None]
                ELSE out = [is_heading |-> TRUE, line |-> RenderedHeading(n, body)]

\* a heading with seven markers a side was rendered at level six
C10_Witness ==
    /\ pc = "done"
    /\ text = HeadingLine(7, <<QUOTE, QUOTE, "x", QUOTE, QUOTE>>, 7)
    /\ out = [is_heading |-> TRUE,
              line |-> <<"#", "#", "#", "#", "#", "#", " ", "*", "x", "*">>]

(***************************************************************************)
(* process_table_block applied to one table block                          *)
(***************************************************************************)
MaxTableLines == 4

TableBodyLines ==
    { <<"|", "+", "Cap">>,
      <<"!", "A", "!", "!", "B">>,
      <<"|", "-">>,
      <<"|", "1", "|", "|", "|", "2">>,
      <<"|", "3">>,
      <<"|", "1", "|", "|", "|", "|", "2">>,
      <<"c">>,
      <<"|", "style", "=", "\"", "r", "\"", "|", "4", "|", "|", "5", "|", "|", "6">> }

TableInputs ==
    { << <<"{", "|">> >> \o body \o tail :
        body \in PieceSeqs(TableBodyLines, MaxTableLines),
        tail \in { <<>>, << <<"|", "}">> >> } }

InitTable ==
    /\ text = <<>>
    /\ lines \in TableInputs
    /\ i = 0
    /\ result = <<>>
    /\ out = <<>>
    /\ pc = "start"

ProcessTableBlock ==
    /\ pc = "start"
    /\ \E block \in { process_table_block(lines, 0) } :
          /\ i' = block.end_index
          /\ out' = block.lines
    /\ pc' = "done"
    /\ UNCHANGED <<text, lines, result>>

NextTable == ProcessTableBlock

SpecTable == InitTable /\ [][NextTable]_vars

\* the lines of a rendered table block that belong to the table grid: every
\* emitted line but the caption line and the empty lines around the block
GridLines(ls) ==
    { k \in 1 .. Len(ls) : ls[k] # <<>> /\ ~StartsWith(ls[k], <<"*", "*">>) }

PipeCount(line) == Occurs(line, "|")

IsPipeRow(line) == Len(line) >= 2 /\ Head(line) = "|" /\ line[Len(line)] = "|"

\* C2 (table rectangularity): in every table block the transducer emits, the
\* header row, the separator row and every data row are pipe-delimited rows
\* with the same number of cells.
C2_TableRectangular ==
    pc = "done" =>
        \A a, b \in GridLines(out) :
            /\ IsPipeRow(out[a])
            /\ PipeCount(out[a]) = PipeCount(out[b])

Example5 ==
    << <<"{", "|">>, <<"|", "+", "Cap">>, <<"!", "A", "!", "!", "B">>, <<"|", "-">>,
       <<"|", "1", "|", "|", "|", "2">>, <<"|", "}">> >>

NonEmptyLines(ls) == SelectSeq(ls, LAMBDA l : l # <<>>)

\* C7 (Example 5): the table block {| , |+Cap , !A!!B , |- , |1|||2 , |} is
\* rendered as the caption **Cap**, the header row | A | B |, the separator
\* | --- | --- | and the data row | 1 | 2 |.
C7_Example5 ==
    (pc = "done" /\ lines = Example5) =>
        NonEmptyLines(out) =
            << <<"*", "*", "Cap", "*", "*">>,
               <<"|", " ", "A", " ", "|", " ", "B", " ", "|">>,
               <<"|", " ", "-", "-", "-", " ", "|", " ", "-", "-", "-", " ", "|">>,
               <<"|", " ", "1", " ", "|", " ", "2", " ", "|">> >>

(***************************************************************************)
(* wikitext_to_markdown applied to one document                            *)
(***************************************************************************)
MaxDocLines == 3

MaxBodyLines == 2

NonContentNamespaces ==
    { "File", "Image", "Category", "Help", "Wikipedia", "படிமம்", "கோப்பு", TA_CATEGORY }

LinkParameters ==
    { <<>>,
      <<"|", "thumb", "|", "caption">>,
      <<"|", "thumb", "|", "a", " ", "[", "[", "B", "]", "]", " ", "c">> }

NamespaceLink(ns, params) == <<"[", "[", ns, ":", "x.jpg">> \o params \o <<"]", "]">>

LinkDocs ==
    { pre \o NamespaceLink(ns, params) \o post :
        pre \in { <<>>, <<"x", " ">> }, post \in { <<>>, <<" ", "y">> },
        ns \in NonContentNamespaces, params \in LinkParameters }

MetaLines ==
    { <<"a">>, <<"b">>,
      <<"=", "=", " ", "References", " ", "=", "=">>,
      <<"=", "=", "=", " ", "See also", " ", "=", "=", "=">>,
      <<"=", " ", "மேற்கோள்கள்", " ", "=">>,
      <<"=", "=", " ", "History", " ", "=", "=">> }

MetaDocs == { Join(ls, <<NL>>) : ls \in PieceSeqs(MetaLines, MaxDocLines) }

InfoboxBodyLines ==
    { <<"|", "a", "=", "b">>, <<"x">>, <<" ", QUOTE, QUOTE, QUOTE, "b", QUOTE, QUOTE, QUOTE>>,
      <<"=", "=", "h", "=", "=">> }

ChennaiLine == <<QUOTE, QUOTE, QUOTE, "Chennai", QUOTE, QUOTE, QUOTE>>

InfoboxDoc(body, tail) ==
    Join(<< <<"{", "{", "Infobox">> >> \o body \o << <<>>, ChennaiLine >> \o tail, <<NL>>)

InfoboxTails == { <<>>, << <<"z">> >> }

InfoboxDocs ==
    { InfoboxDoc(body, tail) :
        body \in PieceSeqs(InfoboxBodyLines, MaxBodyLines), tail \in InfoboxTails }

MaxWords == 3

ProseWords == { <<"the">>, <<"left">>, <<"bank">>, <<"river">> }

\* lines of one to MaxWords ordinary words separated by single spaces
ProseDocs == { Join(ws, <<" ">>) : ws \in PieceSeqs(ProseWords, MaxWords) \ { <<>> } }

Docs == LinkDocs \cup MetaDocs \cup InfoboxDocs \cup ProseDocs

InitConvert ==
    /\ text \in Docs
    /\ lines = <<>>
    /\ i = 0
    /\ result = <<>>
    /\ out = None
    /\ pc = "start"

Convert ==
    /\ pc = "start"
    /\ out' = wikitext_to_markdown(text)
    /\ pc' = "done"
    /\ UNCHANGED <<text, lines, i, result>>

NextConvert == Convert

SpecConvert == InitConvert /\ [][NextConvert]_vars

\* C3 (namespace link filtering): a double-bracket link into a non-content
\* namespace contributes nothing to the output, whatever its parameters: the
\* document converts as the same document without the link.
C3_NamespaceLinkFiltered ==
    pc = "done" =>
        \A pre \in { <<>>, <<"x", " ">> }, post \in { <<>>, <<" ", "y">> },
           ns \in NonContentNamespaces, params \in LinkParameters :
            text = pre \o NamespaceLink(ns, params) \o post
                => out = wikitext_to_markdown(pre \o post)

MetadataNames ==
    { <<name>> : name \in UNION { metadata_sections[k] : k \in 1 .. Len(metadata_sections) } }

\* a heading line of any level whose text is a metadata-section name
IsMetadataHeading(line) ==
    /\ HeadingMatch(line).matched
    /\ HeadingMatch(line).open = HeadingMatch(line).close
    /\ Strip(HeadingMatch(line).text) \in MetadataNames

\* C4 (metadata truncation): from the first metadata-section heading on, no
\* input line produces output: the document converts as its lines before
\* that heading.
C4_MetadataTruncation ==
    pc = "done" =>
        \A k \in 1 .. Len(splitlines(text)) :
            (/\ IsMetadataHeading(splitlines(text)[k])
             /\ \A j \in 1 .. k - 1 : ~IsMetadataHeading(splitlines(text)[j]))
                => out = wikitext_to_markdown(
                             Join(SubSeq(splitlines(text), 1, k - 1), <<NL>>))

RenderedChennai == <<"*", "*", "Chennai", "*", "*", " ", " ">>

RenderedTail(tail) == IF tail = <<>> THEN <<>> ELSE <<NL, "z", " ", " ">>

\* C8 as stated (Example 4): after an unterminated {{Infobox, a blank line and
\* the line '''Chennai''', the output begins with **Chennai** and two spaces:
\* no other line precedes it.
C8_ResumesAtChennai ==
    (pc = "done" /\ text \in InfoboxDocs) => StartsWith(out, RenderedChennai)

\* C8 amended: when the input begins with an unterminated {{Infobox whose
\* lines before the first blank line neither are blank nor start with == or
\* ''', the output resumes at that blank line: one empty line, then
\* **Chennai** with two trailing spaces, then the lines after it.
C8_ResumesAtBlankLine ==
    pc = "done" =>
        \A body \in PieceSeqs(InfoboxBodyLines, MaxBodyLines), tail \in InfoboxTails :
            (/\ text = InfoboxDoc(body, tail)
             /\ \A k \in 1 .. Len(body) : ~IsRecoveryLine(Strip(body[k])))
                => out = <<NL>> \o RenderedChennai \o RenderedTail(tail)

C8_Witness ==
    /\ pc = "done"
    /\ text = InfoboxDoc(<< <<"|", "a", "=", "b">> >>, <<>>)
    /\ out = <<NL>> \o RenderedChennai

(***************************************************************************)
(* wikitext_to_markdown step by step: the rewriting passes, then one       *)
(* action per iteration of the loop of process_lines_to_markdown, then the *)
(* join of the result lines.                                               *)
(***************************************************************************)
MaxPassages == 3

Passages ==
    { <<"x">>,
      <<>>,
      <<"]", "]">>,
      <<"{", "|", NL, "|", "1", "|", "|", "2">>,
      <<"|", "}">>,
      <<"=", "=", "h", "=", "=">>,
      <<"-", "-", "-", "-">>,
      <<"*", "*", " ", QUOTE, QUOTE, "a", QUOTE, QUOTE>>,
      <<"{", "{", "t">> }

LineDocs == { Join(ps, <<NL>>) : ps \in PieceSeqs(Passages, MaxPassages) }

\* steps 1-9 and the split into lines (lines 507-534), for each document
CleanedLines == [d \in LineDocs |-> splitlines(CleanText(d))]

\* the iterations of the loop of process_lines_to_markdown over each of these
\* line lists, by line index
LineIterations ==
    [ls \in { CleanedLines[d] : d \in LineDocs } |->
        [k \in 0 .. Len(ls) - 1 |-> LineIteration(ls, k)]]

InitLines ==
    /\ text \in LineDocs
    /\ lines = <<>>
    /\ i = 0
    /\ result = <<>>
    /\ out = None
    /\ pc = "clean"

\* Preprocess with the result list of line 324 left as the last call left it
Preprocess_KeepResult ==
    /\ pc = "clean"
    /\ lines' = CleanedLines[text]
    /\ i' = 0
    /\ result' = result
    /\ pc' = "lines"
    /\ UNCHANGED <<text, out>>

\* steps 1-9 and the split into lines (lines 507-534)
Preprocess ==
    /\ pc = "clean"
    /\ lines' = CleanedLines[text]
    /\ i' = 0
    /\ result' = <<>>
    /\ pc' = "lines"
    /\ UNCHANGED <<text, out>>

\* one iteration of the loop of process_lines_to_markdown taking branch b
LineStep(b) ==
    /\ pc = "lines"
    /\ i < Len(lines)
    /\ \E it \in { LineIterations[lines][i] } :
          /\ it.branch = b
          /\ i' = it.next
          /\ result' = result \o it.emit
    /\ UNCHANGED <<text, lines, out, pc>>

SkipLine == LineStep("skip")

TableBlock == LineStep("table")

HeadingLineStep == LineStep("heading")

RuleLine == LineStep("rule")

ListLine == LineStep("list")

BlankLine == LineStep("blank")

PlainLine == LineStep("plain")

\* line 537
ReturnMarkdown ==
    /\ pc = "lines"
    /\ i >= Len(lines)
    /\ out' = Join(result, <<NL>>)
    /\ pc' = "done"
    /\ UNCHANGED <<text, lines, i, result>>

NextLines ==
    \/ Preprocess
    \/ SkipLine
    \/ TableBlock
    \/ HeadingLineStep
    \/ RuleLine
    \/ ListLine
    \/ BlankLine
    \/ PlainLine
    \/ ReturnMarkdown

SpecLines == InitLines /\ [][NextLines]_vars

\* the conversion is one synchronous call: an enabled step is taken
FairLines == SpecLines /\ WF_vars(NextLines)

\* C6 (totality, line cursor): every iteration of the line loop moves the
\* cursor forward by exactly the lines it has read, the table hand-off
\* included (at most one past the last line for an unterminated table), and
\* the conversion reaches its return with a string.
C6_LineCursorAdvances ==
    /\ [][(pc = "lines" /\ pc' = "lines") =>
            /\ i' > i
            /\ i' <= Len(lines) + 1
            /\ Min(i', Len(lines)) - i = LineIterations[lines][i].read]_vars
    /\ <>(pc = "done" /\ out # None)

\* an unterminated table as the last lines: the cursor ends one past the end
C6_Witness ==
    /\ pc = "done"
    /\ Len(lines) >= 3
    /\ i = Len(lines) + 1
    /\ out # None

(***************************************************************************)
(* process_lines_to_markdown applied to a list of lines, one action per    *)
(* branch of its loop.                                                     *)
(***************************************************************************)
MaxLines == 3

ExampleLine ==
    <<QUOTE, QUOTE, QUOTE, "bold", QUOTE, QUOTE, QUOTE, " ", "and", " ",
      QUOTE, QUOTE, "italic", QUOTE, QUOTE>>

FiveLine == <<QUOTE, QUOTE, QUOTE, QUOTE, QUOTE, "b", QUOTE, QUOTE, QUOTE, QUOTE, QUOTE>>

DispatchLines ==
    { ExampleLine,
      FiveLine,
      <<" ">>,
      <<"]", "]">>,
      <<"{", "|">>,
      <<"|", "-">>,
      <<" ", "|", "a", "|", "|", "b">>,
      <<"|", "}">>,
      <<"=", "=", "h", "=", "=">>,
      <<"-", "-", "-", "-">>,
      <<"#", " ", "a">> }

InitDispatch ==
    /\ text = <<>>
    /\ lines \in PieceSeqs(DispatchLines, MaxLines)
    /\ i = 0
    /\ result = <<>>
    /\ out = <<>>
    /\ pc = "lines"

\* one iteration of the loop of lines 326-369 taking branch b
Dispatch(b) ==
    /\ pc = "lines"
    /\ i < Len(lines)
    /\ \E it \in { LineIteration(lines, i) } :
          /\ it.branch = b
          /\ i' = it.next
          /\ result' = result \o it.emit
    /\ UNCHANGED <<text, lines, out, pc>>

DispatchSkip == Dispatch("skip")

DispatchTable == Dispatch("table")

DispatchHeading == Dispatch("heading")

DispatchRule == Dispatch("rule")

DispatchList == Dispatch("list")

DispatchBlank == Dispatch("blank")

DispatchPlain == Dispatch("plain")

\* line 371
ReturnLines ==
    /\ pc = "lines"
    /\ i >= Len(lines)
    /\ out' = result
    /\ pc' = "done"
    /\ UNCHANGED <<text, lines, i, result>>

NextDispatch ==
    \/ DispatchSkip
    \/ DispatchTable
    \/ DispatchHeading
    \/ DispatchRule
    \/ DispatchList
    \/ DispatchBlank
    \/ DispatchPlain
    \/ ReturnLines

SpecDispatch == InitDispatch /\ [][NextDispatch]_vars


SkipPunctuation ==
    { <<"]", "]">>, <<")">>, <<")", " ", "]", "]">>, <<"|">>, <<"|", "|">> }

\* the class of a stripped line: the first test that succeeds, in the order
\* skip, table, heading, horizontal rule, list, then blank or plain
DispatchClass(line) ==
    IF line \in SkipPunctuation THEN "skip"
    ELSE IF StartsWith(line, <<"{", "|">>) THEN "table"
    ELSE IF process_heading(line).is_heading THEN "heading"
    ELSE IF process_horizontal_rule(line).is_hr THEN "rule"
    ELSE IF process_list_item(line).is_list THEN "list"
    ELSE IF line = <<>> THEN "blank"
    ELSE "plain"

ExampleRendered ==
    <<"*", "*", "bold", "*", "*", " ", "and", " ", "*", "italic", "*", " ", " ">>

FiveRendered == <<"*", "*", "*", "b", "*", "*", "*", " ", " ">>

\* the line an iteration has appended to the result, None if it has not
\* appended exactly one line
Appended(before, after) ==
    IF Len(after) = Len(before) + 1 /\ SubSeq(after, 1, Len(before)) = before
    THEN after[Len(after)] ELSE None

\* C11 (plain lines): a blank line is emitted as an empty line; a non-blank
\* plain line is emitted as one line ending in exactly two spaces, with the
\* five-apostrophe rule applied before the three- and two-apostrophe rules:
\* '''bold''' and ''italic'' gives **bold** and *italic* and two spaces,
\* '''''b''''' gives ***b*** and two spaces.
C11_PlainLineRendered ==
    [][(pc = "lines" /\ pc' = "lines") =>
        LET line == Strip(At(lines, i))
            e == Appended(result, result')
        IN  /\ DispatchClass(line) = "blank" => e = <<>>
            /\ DispatchClass(line) = "plain" =>
                  /\ e # None
                  /\ Len(e) >= 3
                  /\ e[Len(e)] = " " /\ e[Len(e) - 1] = " " /\ e[Len(e) - 2] # " "
            /\ line = ExampleLine => e = ExampleRendered
            /\ line = FiveLine => e = FiveRendered]_vars

C11_Witness ==
    /\ pc = "done"
    /\ lines = << ExampleLine, <<" ">>, FiveLine >>
    /\ out = << ExampleRendered, <<>>, FiveRendered >>


(***************************************************************************)
(* The single passes as a state machine: the pass named by pc is applied   *)
(* to text.                                                                *)
(***************************************************************************)
MaxNesting == 4

LinkTargets ==
    { <<"Chennai">>, <<"Tamil", " ", "Nadu">>, <<"Portal", ":", "x">>,
      <<"File", ":", "x.jpg">>, <<"help", ":", "x">> }

LinkLabels == { None, <<"the", " ", "city">>, <<"a", "|", "b">> }

LinkContexts == { <<>>, <<"see", " ">>, <<" ", "(", "x", ")", NL>> }

InternalLinkText(target, label) ==
    <<"[", "[">> \o target
        \o (IF label = None THEN <<>> ELSE <<"|">> \o label) \o <<"]", "]">>

LinkTexts ==
    { pre \o InternalLinkText(target, label) \o post :
        pre \in LinkContexts, target \in LinkTargets,
        label \in LinkLabels, post \in LinkContexts }

\* a file embed whose caption holds a file embed, d times over
RECURSIVE NestedEmbed(_)
NestedEmbed(d) ==
    IF d = 0 THEN <<"[", "[", "File", ":", "x.jpg", "]", "]">>
    ELSE <<"[", "[", "File", ":", "x.jpg", "|">> \o NestedEmbed(d - 1) \o <<"]", "]">>

EmbedTexts ==
    { pre \o NestedEmbed(d) \o post :
        pre \in LinkContexts, d \in 0 .. MaxNesting, post \in LinkContexts }

MaxWhitespacePieces == 5

WhitespaceTexts == PieceSeqs({"a", " ", "\t", NL}, MaxWhitespacePieces)

InitPasses ==
    /\ \/ pc = "links" /\ text \in LinkTexts
       \/ pc = "images" /\ text \in EmbedTexts
       \/ pc = "whitespace" /\ text \in WhitespaceTexts
    /\ lines = <<>> /\ i = 0 /\ result = <<>> /\ out = None

ConvertInternalLinks ==
    /\ pc = "links"
    /\ out' = convert_internal_links(text)
    /\ pc' = "done"
    /\ UNCHANGED <<text, lines, i, result>>

RemoveImagesAndFiles ==
    /\ pc = "images"
    /\ out' = remove_images_and_files(text)
    /\ pc' = "done"
    /\ UNCHANGED <<text, lines, i, result>>

NormalizeWhitespace ==
    /\ pc = "whitespace"
    /\ out' = normalize_whitespace(text)
    /\ pc' = "done"
    /\ UNCHANGED <<text, lines, i, result>>

NextPasses == ConvertInternalLinks \/ RemoveImagesAndFiles \/ NormalizeWhitespace

SpecPasses == InitPasses /\ [][NextPasses]_vars

\* the target starts with one of the namespace names that the conversion
\* drops, in any letter case, followed by a colon
HasNonContentPrefix(target) ==
    /\ Len(target) >= 2
    /\ target[2] = ":"
    /\ target[1] \in NonContentNamespaces \cup { "file", "image", "category", "help", "wikipedia" }

\* C12 (internal links): [[target|label]] is replaced by label and
\* [[target]] by target whenever the target has no non-content namespace
\* prefix, and the text around the link is unchanged.
C12_InternalLinkRewritten ==
    pc = "done" =>
        \A pre \in LinkContexts, target \in LinkTargets,
           label \in LinkLabels, post \in LinkContexts :
            (text = pre \o InternalLinkText(target, label) \o post
                /\ ~HasNonContentPrefix(target))
            => out = pre \o (IF label = None THEN target ELSE label) \o post

C12_Witness ==
    /\ pc = "done"
    /\ text = <<"see", " ">> \o InternalLinkText(<<"Chennai">>, <<"the", " ", "city">>)
                  \o <<" ", "(", "x", ")", NL>>
    /\ out = <<"see", " ", "the", " ", "city", " ", "(", "x", ")", NL>>


\* C17 (image removal reaches a fixed point): after remove_images_and_files
\* has returned, one more image-removal pass changes nothing, for file
\* embeds nested in the captions of file embeds to any depth.
C17_ImageFixedPoint ==
    (pc = "done" /\ text \in EmbedTexts) => remove_images(out, 0) = out


\* C13 (prose passes through): a line made only of ordinary words is
\* emitted with the same words in the same order, followed by the two
\* trailing spaces of a plain line.
C13_ProseUnchanged ==
    (pc = "done" /\ text \in ProseDocs) => out = text \o <<" ", " ">>


(***************************************************************************)
(* Successive calls of wikitext_to_markdown: after a call has returned,    *)
(* the next call starts on another document.  The locals of a call are     *)
(* whatever the code assigns to them; nothing else resets them.            *)
(***************************************************************************)
SessionDocs ==
    { Join(ps, <<NL>>) :
        ps \in PieceSeqs(Passages, 1) \cup { << <<"x">>, <<>>, <<"x">> >> } }

InitSession ==
    /\ text \in SessionDocs
    /\ lines = <<>>
    /\ i = 0
    /\ result = <<>>
    /\ out = None
    /\ pc = "clean"

CallAgain ==
    /\ pc = "done"
    /\ text' \in SessionDocs
    /\ pc' = "clean"
    /\ UNCHANGED <<lines, i, result, out>>

NextSession ==
    \/ Preprocess
    \/ SkipLine
    \/ TableBlock
    \/ HeadingLineStep
    \/ RuleLine
    \/ ListLine
    \/ BlankLine
    \/ PlainLine
    \/ ReturnMarkdown
    \/ CallAgain

SpecSession == InitSession /\ [][NextSession]_vars

\* the output of one call on each document, with no call before it
SingleCall == [d \in SessionDocs |-> wikitext_to_markdown(d)]

\* C14 (no state between calls): whenever a call returns, whatever was
\* converted before it, its output is the output of a single call on the
\* same document; converting B after A gives what converting B alone gives.
C14_NoStateBetweenCalls ==
    [][pc' = "done" => out' = SingleCall[text']]_vars

\* a later call about to return, the output of the call before it still
\* in place and different from the one it will return
C14_Witness ==
    /\ pc = "lines"
    /\ i >= Len(lines)
    /\ out # None
    /\ result # <<>>
    /\ out # Join(result, <<NL>>)


(***************************************************************************)
(* remove_templates on an unterminated template followed by lines          *)
(***************************************************************************)
MaxRecoveryLines == 3

RecoveryLines ==
    { <<"x">>, <<>>, <<" ">>,
      <<"=", "T", "=">>,
      <<"=", "=", "T", "=", "=">>,
      <<"=", "=", "x">>,
      <<QUOTE, QUOTE, QUOTE, "b", QUOTE, QUOTE, QUOTE>>,
      <<"{", "{", "b", "}", "}">> }

RecoveryInputs ==
    { pre \o <<"{", "{", "a">> \o Concat([k \in 1 .. Len(ls) |-> <<NL>> \o ls[k]]) :
        pre \in { <<>>, <<"p">> }, ls \in PieceSeqs(RecoveryLines, MaxRecoveryLines) }

InitRecovery ==
    /\ text \in RecoveryInputs
    /\ lines = <<>>
    /\ i = 0
    /\ result = <<>>
    /\ out = None
    /\ pc = "scan"

SpecRecovery == InitRecovery /\ [][NextTemplates]_vars

\* the line of s that starts at index p, stripped
LineFrom(s, p) ==
    Strip(Slice(s, p, IF Find(s, NL, p) = -1 THEN Len(s) ELSE Find(s, NL, p)))

\* a line where emission may resume: blank, a heading line (equal runs of "="
\* around a text), or a line that begins with three apostrophes
IsResyncLine(line) ==
    \/ line = <<>>
    \/ HeadingMatch(line).matched
    \/ StartsWith(line, <<QUOTE, QUOTE, QUOTE>>)

\* the start of the first such line after the line of the open marker at k,
\* the end of the input when there is none
ResyncPoint(s, k) ==
    LET starts == { p \in k + 1 .. Len(s) :
                      /\ At(s, p - 1) = NL
                      /\ Find(s, NL, k) # -1 /\ Find(s, NL, k) < p
                      /\ IsResyncLine(LineFrom(s, p)) }
    IN  IF starts = {} THEN Len(s) ELSE CHOOSE p \in starts : \A q \in starts : p <= q

\* C15 (recovery point): when the scan from an open marker reaches the end
\* of the input with the nesting counter nonzero, emission resumes at the
\* start of the first later line that is blank, is a heading line or begins
\* with three apostrophes, and at the end of the input when there is no such
\* line; nothing is emitted for what was skipped.
C15_RecoveryPoint ==
    [][(pc = "scan" /\ i < Len(text) /\ TemplateIteration(text, i).branch = "recover")
          => (i' = ResyncPoint(text, i) /\ result' = result)]_vars


\* s from index k on with every character inside a template span left out:
\* depth counts the open markers not yet closed, read from left to right
RECURSIVE StripSpans(_, _, _)
StripSpans(s, k, depth) ==
    IF k >= Len(s) THEN <<>>
    ELSE IF StartsWithAt(s, k, OPEN) THEN StripSpans(s, k + 2, depth + 1)
    ELSE IF StartsWithAt(s, k, CLOSE) /\ depth > 0 THEN StripSpans(s, k + 2, depth - 1)
    ELSE (IF depth = 0 THEN <<At(s, k)>> ELSE <<>>) \o StripSpans(s, k + 1, depth)

\* C16 (balanced templates deleted): for an input whose template markers are
\* balanced, the output of remove_templates is the input with its top-level
\* spans deleted: each character outside every span once and in order, no
\* character from inside a span at any depth.
C16_TopLevelSpansDeleted ==
    (pc = "done" /\ TokenBalancedFrom(text, 0, 0)) => out = StripSpans(text, 0, 0)

C16_Witness ==
    /\ pc = "done"
    /\ text = <<"{", "{", "{", "{", "{", "}", "}", "}", "}">>
    /\ out = <<>>


IsPrefix(s, t) == Len(s) <= Len(t) /\ SubSeq(t, 1, Len(s)) = s

\* C18 (dispatch order): the loop handles each line by the first class that
\* fits it, tested in the order skip, table, heading, horizontal rule, list,
\* then blank or plain: a skip line gives no output, a heading, rule or list
\* line its rendering, a blank or plain line one line; a line outside a
\* table gives at most one output line, and output is only ever appended, so
\* output lines keep the order of the input lines that produced them.
C18_DispatchOrder ==
    [][(pc = "lines" /\ pc' = "lines") =>
        LET line == Strip(At(lines, i))
            c == DispatchClass(line)
            e == Appended(result, result')
        IN  /\ IsPrefix(result, result')
            /\ i' > i
            /\ c # "table" => (i' = i + 1 /\ Len(result') <= Len(result) + 1)
            /\ c = "skip" => result' = result
            /\ c = "heading" =>
                  IF process_heading(line).line = None THEN result' = result
                  ELSE e = process_heading(line).line
            /\ c = "rule" => e = <<"-", "-", "-">>
            /\ c = "list" => e = process_list_item(line).line
            /\ c \in {"blank", "plain"} => e # None
            /\ line = <<"=", "=", "h", "=", "=">> => e = <<"#", "#", " ", "h">>
            /\ line = <<"#", " ", "a">> => e = <<"1", ".", " ", "a">>]_vars

C18_Witness ==
    /\ pc = "done"
    /\ lines = << <<"]", "]">>, <<"=", "=", "h", "=", "=">>, <<"#", " ", "a">> >>
    /\ out = << <<"#", "#", " ", "h">>, <<"1", ".", " ", "a">> >>


\* the index of the first line after k that starts with the close marker,
\* Len(ls) when there is none
CloseLine(ls, k) ==
    LET closes == { e \in k + 1 .. Len(ls) - 1 : StartsWith(Strip(At(ls, e)), <<"|", "}">>) }
    IN  IF closes = {} THEN Len(ls) ELSE CHOOSE e \in closes : \A f \in closes : e <= f

\* the lines ls[a] .. ls[b], stripped
StrippedLines(ls, a, b) == [k \in 1 .. b - a + 1 |-> Strip(At(ls, a + k - 1))]

\* C19 (table block): a block opened by a line that begins with the table
\* open marker takes every line up to and including its close-marker line
\* and the loop resumes at the line after it; with no close marker the block
\* runs to the end of the input and is still rendered.  What the step emits
\* is the rendering of the block, so no line inside it is dispatched as a
\* heading, rule, list item or plain line.
C19_TableBlockConsumed ==
    [][(pc = "lines" /\ pc' = "lines" /\ DispatchClass(Strip(At(lines, i))) = "table") =>
        LET e == CloseLine(lines, i)
            last == IF e < Len(lines) THEN e ELSE Len(lines) - 1
        IN  /\ e < Len(lines) => i' = e + 1
            /\ e = Len(lines) => i' >= Len(lines)
            /\ result' = result \o
                 splitlines(convert_wikitable_to_markdown(StrippedLines(lines, i, last)))
            /\ \A k \in Len(result) + 1 .. Len(result') :
                 result'[k] \notin { <<"#", "#", " ", "h">>, <<"-", "-", "-">>,
                                     <<"1", ".", " ", "a">>, ExampleRendered, FiveRendered }]_vars

C19_Witness ==
    /\ pc = "done"
    /\ lines = << <<"{", "|">>, <<"|", "-">>, <<" ", "|", "a", "|", "|", "b">> >>
    /\ i = 4
    /\ out = << <<"|", " ", "a", " ", "|", " ", "b", " ", "|">>,
                <<"|", " ", "-", "-", "-", " ", "|", " ", "-", "-", "-", " ", "|">> >>


(***************************************************************************)
(* convert_wikitable_to_markdown as a state machine: text holds            *)
(* table_lines, lines holds table_rows, i is the index of row_text in      *)
(* table_rows, result holds headers, rows and caption.                     *)
(***************************************************************************)
\* lines 393-410: caption taken from a "|+" line, the lines joined, the
\* attributes removed, the text split at the row separators
SplitRows ==
    /\ pc = "split"
    /\ LET has_caption == Len(text) > 1 /\ StartsWith(text[2], <<"|", "+">>)
           table_lines == IF has_caption
                          THEN << text[1] >> \o SubSeq(text, 3, Len(text)) ELSE text
       IN  /\ lines' = Split(SubAttr(SubAttrPipe(Join(table_lines, <<NL>>), 0), 0, "\""), "row")
           /\ result' = [headers |-> <<>>, rows |-> <<>>,
                         caption |-> IF has_caption
                                     THEN Strip(LStripChars(text[2], {"|", "+"})) ELSE None]
    /\ i' = 0
    /\ pc' = "rows"
    /\ UNCHANGED <<text, out>>

\* which branch of the loop body (lines 413-447) row_text0 takes
RowBranch(row_text0, acc) ==
    LET row_text == Strip(row_text0)
    IN  IF row_text = <<>> \/ StartsWith(row_text, <<"{", "|">>)
                          \/ StartsWith(row_text, <<"|", "}">>)
        THEN "continue"
        ELSE IF StartsWith(row_text, <<"!">>) THEN "header"
        ELSE IF StartsWith(row_text, <<"|">>) THEN "data"
        ELSE "other"

\* one iteration of the loop over table_rows taking branch b
RowStep(b) ==
    /\ pc = "rows"
    /\ i < Len(lines)
    /\ RowBranch(At(lines, i), result) = b
    /\ result' = ParseRow(At(lines, i), result)
    /\ i' = i + 1
    /\ UNCHANGED <<text, lines, out, pc>>

RowContinue == RowStep("continue")

HeaderRow == RowStep("header")

DataRow == RowStep("data")

OtherRow == RowStep("other")

\* ReturnTable without the promotion of lines 450-451
ReturnTable_NoPromotion ==
    /\ pc = "rows"
    /\ i >= Len(lines)
    /\ out' = IF result.headers = <<>> THEN <<>> ELSE RenderTable(result)
    /\ pc' = "done"
    /\ UNCHANGED <<text, lines, i, result>>

\* lines 449-477
ReturnTable ==
    /\ pc = "rows"
    /\ i >= Len(lines)
    /\ LET t == IF result.headers = <<>> /\ result.rows # <<>>
                THEN [result EXCEPT !.headers = Head(result.rows), !.rows = Tail(result.rows)]
                ELSE result
       IN  out' = IF t.headers = <<>> THEN <<>> ELSE RenderTable(t)
    /\ pc' = "done"
    /\ UNCHANGED <<text, lines, i, result>>

InitRows ==
    /\ text \in TableInputs
    /\ lines = <<>>
    /\ i = 0
    /\ result = [headers |-> <<>>, rows |-> <<>>, caption |-> None]
    /\ out = None
    /\ pc = "split"

NextRows == SplitRows \/ RowContinue \/ HeaderRow \/ DataRow \/ OtherRow \/ ReturnTable

SpecRows == InitRows /\ [][NextRows]_vars

\* a data row with one cell: it starts with the cell marker, not with the
\* close marker, holds no other pipe, and there is text after the marker
IsLoneCellRow(row) ==
    /\ StartsWith(row, <<"|">>)
    /\ ~StartsWith(row, <<"|", "}">>)
    /\ Find(row, "|", 1) = -1
    /\ Strip(Drop(row, 1)) # <<>>

\* C20 (single-cell row): a data row with exactly one non-empty cell met
\* before any header row or data row has been recorded becomes the caption
\* and is not added to the body rows; met after a header or a data row has
\* been recorded it is appended to the body rows.
C20_LoneCellRow ==
    [][(pc = "rows" /\ pc' = "rows" /\ IsLoneCellRow(Strip(At(lines, i)))) =>
        LET cell == Strip(Drop(Strip(At(lines, i)), 1))
        IN  IF result.headers = <<>> /\ result.rows = <<>>
            THEN /\ result'.caption = cell
                 /\ result'.rows = <<>>
                 /\ result'.headers = <<>>
            ELSE /\ result'.rows = Append(result.rows, << cell >>)
                 /\ result'.caption = result.caption
                 /\ result'.headers = result.headers]_vars

\* the row |3 met first is the caption, the row |1|||2 after it the header
C20_Witness ==
    /\ pc = "done"
    /\ text = << <<"{", "|">>, <<"|", "-">>, <<"|", "3">>, <<"|", "-">>,
                 <<"|", "1", "|", "|", "|", "2">> >>
    /\ result = [headers |-> <<>>, rows |-> << << <<"1">>, <<"2">> >> >>, caption |-> <<"3">>]
    /\ splitlines(out) = << <<"*", "*", "3", "*", "*">>, <<>>,
                            <<"|", " ", "1", " ", "|", " ", "2", " ", "|">>,
                            <<"|", " ", "-", "-", "-", " ", "|", " ", "-", "-", "-", " ", "|">> >>


\* a row of cells between pipes
PipeRow(cells) == <<"|", " ">> \o Join(cells, <<" ", "|", " ">>) \o <<" ", "|">>

PadRight(row, w) == row \o [k \in 1 .. w - Len(row) |-> <<>>]

\* the length of the longest of the rows
Widest(rows) == CHOOSE n \in { Len(rows[k]) : k \in 1 .. Len(rows) } :
                    \A k \in 1 .. Len(rows) : Len(rows[k]) <= n

\* the text of a table with this caption, header and body when no cell is
\* dropped: an optional bold caption and an empty line, the header, the row
\* of dashes and the body rows, every row as wide as the widest, each line
\* closed by a newline
ExpectedTable(caption, header, body) ==
    LET w == Widest(<<header>> \o body)
        rows == << PadRight(header, w), [k \in 1 .. w |-> <<"-", "-", "-">>] >>
                    \o [k \in 1 .. Len(body) |-> PadRight(body[k], w)]
    IN  (IF caption = None \/ caption = <<>> THEN <<>>
         ELSE <<"*", "*">> \o caption \o <<"*", "*", NL, NL>>)
        \o Concat([k \in 1 .. Len(rows) |-> PipeRow(rows[k]) \o <<NL>>])

\* C21 (header promotion): when the loop has found no header row but has
\* recorded data rows, the first recorded data row is the header of the
\* emitted table and the rows after it are its body; when it has found
\* neither, the output is empty: no caption line, no rows.
C21_HeaderPromotion ==
    (pc = "done" /\ result.headers = <<>>) =>
        IF result.rows = <<>> THEN out = <<>>
        ELSE out = ExpectedTable(result.caption, Head(result.rows), Tail(result.rows))

\* two data rows and no header row: the first is the header
C21_Witness ==
    /\ pc = "done"
    /\ result.headers = <<>>
    /\ result.rows = << << <<"1">>, <<"2">> >>, << <<"3">> >> >>
    /\ out = <<"|", " ", "1", " ", "|", " ", "2", " ", "|", NL,
               "|", " ", "-", "-", "-", " ", "|", " ", "-", "-", "-", " ", "|", NL,
               "|", " ", "3", " ", "|", " ", " ", "|", NL>>


\* the header and the body of the table that the loop has recorded
RecordedHeader == IF result.headers = <<>> THEN Head(result.rows) ELSE result.headers

RecordedBody == IF result.headers = <<>> THEN Tail(result.rows) ELSE result.rows

\* C24 (no cell dropped): the header is padded to the longest row, so no
\* body row is longer than the emitted header and none is truncated: every
\* body row is in the output with all of its recorded cells, padded on the
\* right to the width of the table.
C24_NoCellDropped ==
    (pc = "done" /\ (result.headers # <<>> \/ result.rows # <<>>)) =>
        LET w == Widest(<<RecordedHeader>> \o RecordedBody)
        IN  /\ Occurs(out, PipeRow(PadRight(RecordedHeader, w)) \o <<NL>>)
            /\ \A k \in 1 .. Len(RecordedBody) :
                  Occurs(out, <<NL>> \o PipeRow(PadRight(RecordedBody[k], w)) \o <<NL>>)

\* a body row of three cells under a header of two
C24_Witness ==
    /\ pc = "done"
    /\ result.headers = << <<"A">>, <<"B">> >>
    /\ result.rows = << << <<"4">>, <<"5">>, <<"6">> >> >>
    /\ out = <<"|", " ", "A", " ", "|", " ", "B", " ", "|", " ", " ", "|", NL,
               "|", " ", "-", "-", "-", " ", "|", " ", "-", "-", "-", " ", "|", " ",
               "-", "-", "-", " ", "|", NL,
               "|", " ", "4", " ", "|", " ", "5", " ", "|", " ", "6", " ", "|", NL>>


\* an empty cell of an emitted row starts at index p: nothing but two spaces
\* between two pipes
EmptyCellAt(line, p) == StartsWithAt(line, p, <<"|", " ", " ", "|">>)

\* every empty cell of the row is followed by empty cells only
EmptyOnlySuffix(line) ==
    \A p \in 0 .. Len(line) - 1 :
        EmptyCellAt(line, p) => \A q \in p + 3 .. Len(line) - 1 : At(line, q) \in {"|", " "}

\* the data row |1||||2, whose second cell is empty
ShiftedRow == <<"|", "1", "|", "|", "|", "|", "2">>

\* C25 (empty cells only as padding): in every emitted row the empty cells
\* are a right-hand suffix; a cell that is empty in the input row is dropped
\* when the row is parsed, so the cells after it move to the left: the row
\* |1||||2 is emitted with 1 and 2 in adjacent columns.
C25_EmptyCellsOnlyPadding ==
    pc = "done" =>
        /\ \A k \in 1 .. Len(splitlines(out)) :
              StartsWith(splitlines(out)[k], <<"|">>) => EmptyOnlySuffix(splitlines(out)[k])
        /\ (\E k \in 1 .. Len(lines) : lines[k] = ShiftedRow)
              => Occurs(out, <<"|", " ", "1", " ", "|", " ", "2", " ", "|">>)

\* the row with the empty cell under a header of three: 1 and 2 side by
\* side, the padding on the right
C25_Witness ==
    /\ pc = "done"
    /\ lines[Len(lines)] = ShiftedRow
    /\ Occurs(out, <<NL, "|", " ", "1", " ", "|", " ", "2", " ", "|", " ", " ", "|", NL>>)


\* the cells of the lone-cell data rows among the row groups rs that come
\* before the first header row and the first data row of several cells
RECURSIVE LoneCaptions(_)
LoneCaptions(rs) ==
    IF rs = <<>> THEN <<>>
    ELSE LET row == Strip(Head(rs))
         IN  IF IsLoneCellRow(row)
             THEN << Strip(Drop(row, 1)) >> \o LoneCaptions(Tail(rs))
             ELSE IF StartsWith(row, <<"!">>)
                     \/ (StartsWith(row, <<"|">>) /\ ~StartsWith(row, <<"|", "}">>))
             THEN <<>>
             ELSE LoneCaptions(Tail(rs))

\* the caption of the table: the last lone-cell caption if there is one,
\* else the caption of a "|+" line right after the open marker, else none
ExpectedCaption ==
    IF LoneCaptions(lines) # <<>> THEN LoneCaptions(lines)[Len(LoneCaptions(lines))]
    ELSE IF Len(text) > 1 /\ StartsWith(text[2], <<"|", "+">>) THEN Drop(text[2], 2)
    ELSE None

CaptionLine(caption) == <<"*", "*">> \o caption \o <<"*", "*", NL, NL>>

\* C27 (one caption): the table has at most one caption line; a lone-cell
\* caption met in the rows replaces the caption of a "|+" line, the last one
\* winning; the caption is emitted, once and first, only when the table has
\* a header, and with no header the output is empty, caption included.
C27_OneCaption ==
    pc = "done" =>
        /\ result.caption = ExpectedCaption
        /\ IF result.headers = <<>> /\ result.rows = <<>> THEN out = <<>>
           ELSE IF ExpectedCaption = None THEN ~Occurs(out, <<"*", "*">>)
           ELSE /\ StartsWith(out, CaptionLine(ExpectedCaption))
                /\ ~Occurs(Drop(out, Len(CaptionLine(ExpectedCaption))), <<"*", "*">>)

\* the caption of the "|+" line replaced by the lone cell 3, and discarded
\* with the table, which has no header
C27_Witness ==
    /\ pc = "done"
    /\ Len(text) > 1
    /\ text[2] = <<"|", "+", "Cap">>
    /\ result = [headers |-> <<>>, rows |-> <<>>, caption |-> <<"3">>]
    /\ out = <<>>


(***************************************************************************)
(* process_list_item as a state machine                                    *)
(***************************************************************************)
MaxListMarkers == 3

ListContents ==
    { <<>>, <<"a">>, <<" ", "a", " ">>, <<"a", " ", "b">>, <<"\t", "1", ".", " ", "a">>,
      <<QUOTE, QUOTE, "a", QUOTE, QUOTE>> }

ListInputs ==
    { markers \o content :
        markers \in PieceSeqs({"*", "#"}, MaxListMarkers), content \in ListContents }

InitList ==
    /\ text \in ListInputs
    /\ lines = <<>>
    /\ i = 0
    /\ result = <<>>
    /\ out = [is_list |-> FALSE, line |-> None]
    /\ pc = "start"

ProcessListItem ==
    /\ pc = "start"
    /\ out' = process_list_item(text)
    /\ pc' = "done"
    /\ UNCHANGED <<text, lines, i, result>>

NextList == ProcessListItem

SpecList == InitList /\ [][NextList]_vars

\* the number of list markers that the line begins with
LeadingMarkers(line) ==
    CHOOSE k \in 0 .. Len(line) :
        /\ \A j \in 1 .. k : line[j] \in {"*", "#"}
        /\ k < Len(line) => line[k + 1] \notin {"*", "#"}

\* the content of a list line as it is emitted: stripped, emphasis converted
EmittedContent(content) ==
    IF content = <<QUOTE, QUOTE, "a", QUOTE, QUOTE>> THEN <<"*", "a", "*">>
    ELSE Strip(content)

\* C22 (list items): a line that begins with a run of k >= 1 list markers is
\* emitted as 2*(k-1) spaces, then "- " when its first marker is "*" and
\* "1. " when it is "#", then the content; an ordered item is always "1.".
C22_ListItemRendered ==
    pc = "done" =>
        LET k == LeadingMarkers(text)
        IN  IF k = 0 THEN ~out.is_list
            ELSE /\ out.is_list
                 /\ out.line = Repeat(" ", 2 * (k - 1))
                                 \o (IF text[1] = "*" THEN <<"-", " ">> ELSE <<"1", ".", " ">>)
                                 \o EmittedContent(Drop(text, k))

\* an ordered item one level down, its second marker a "*"
C22_Witness ==
    /\ pc = "done"
    /\ text = <<"#", "*", " ", "a", " ">>
    /\ out = [is_list |-> TRUE, line |-> <<" ", " ", "1", ".", " ", "a">>]


\* s from index p on with every run of three or more newlines cut to two
RECURSIVE CutNewlineRuns(_, _)
CutNewlineRuns(s, p) ==
    IF p >= Len(s) THEN <<>>
    ELSE IF RunAt(s, p, NL) >= 3
    THEN <<NL, NL>> \o CutNewlineRuns(s, p + RunAt(s, p, NL))
    ELSE IF At(s, p) = NL
    THEN Repeat(NL, RunAt(s, p, NL)) \o CutNewlineRuns(s, p + RunAt(s, p, NL))
    ELSE <<At(s, p)>> \o CutNewlineRuns(s, p + 1)

\* s without its spaces and tabs
WithoutBlanks(s) == SelectSeq(s, LAMBDA c : c \notin {" ", "\t"})

MaxNestedLines == 4

NestedLines ==
    { <<"{", "|">>, <<"|", "}">>, <<"x">>, <<" ">>, <<"]", "]">>,
      <<"=", "=", "h", "=", "=">>, <<"-", "-", "-", "-">>, <<"#", " ", "a">> }

InitNested ==
    /\ text = <<>>
    /\ lines \in PieceSeqs(NestedLines, MaxNestedLines)
    /\ i = 0
    /\ result = <<>>
    /\ out = <<>>
    /\ pc = "lines"

SpecNested == InitNested /\ [][NextDispatch]_vars

\* what the loop emits for a line that is not in a table block
OrdinaryLine(line) ==
    CASE line = <<"]", "]">> -> <<>>
      [] line = <<>> -> << <<>> >>
      [] line = <<"=", "=", "h", "=", "=">> -> << <<"#", "#", " ", "h">> >>
      [] line = <<"-", "-", "-", "-">> -> << <<"-", "-", "-">> >>
      [] line = <<"#", " ", "a">> -> << <<"1", ".", " ", "a">> >>
      [] OTHER -> << line \o <<" ", " ">> >>

\* the output for the lines from index k on when a table block ends at the
\* first close-marker line after its open marker, open markers in between
\* or not, and every line outside a block is an ordinary line
RECURSIVE FlatTables(_, _)
FlatTables(ls, k) ==
    IF k >= Len(ls) THEN <<>>
    ELSE IF StartsWith(Strip(At(ls, k)), <<"{", "|">>)
    THEN splitlines(convert_wikitable_to_markdown(
             StrippedLines(ls, k, Min(CloseLine(ls, k), Len(ls) - 1))))
         \o FlatTables(ls, CloseLine(ls, k) + 1)
    ELSE OrdinaryLine(Strip(At(ls, k))) \o FlatTables(ls, k + 1)

\* C26 (no table nesting): a table block ends at the first later line that
\* starts with the close marker, however many open-marker lines lie in
\* between; the lines of the outer table after the close marker of an inner
\* table are handled by the loop as ordinary lines.
C26_NestingNotTracked ==
    pc = "done" => out = FlatTables(lines, 0)

\* the close marker of the outer table comes out as a plain line
C26_Witness ==
    /\ pc = "done"
    /\ lines = << <<"{", "|">>, <<"{", "|">>, <<"|", "}">>, <<"|", "}">> >>
    /\ out = << <<"|", "}", " ", " ">> >>

====
